---- MODULE Spec2Model ----
(***************************************************************************)
(* Geoplexer web client (apps/web App component): the selection            *)
(* orchestrator, the place store (bookmarks / history) and the geographic  *)
(* identity functions they share.                                          *)
(*                                                                         *)
(* Latitudes are integers in units of 1e-5 degree.  Every coordinate of    *)
(* the model lies on the meridian lng = 0, where the haversine formula of  *)
(* distanceMeters reduces to R * |dLat| (sinLng = 0).                      *)
(*                                                                         *)
(* One step of the model is one task of the browser's event loop: a user   *)
(* event handler or the continuation of a settled network promise,         *)
(* followed by the React render it causes and the effects of that render   *)
(* (run to quiescence).  Continuations of promises rejected by             *)
(* AbortController.abort() are microtasks: they are drained before the     *)
(* next task.                                                              *)
(***************************************************************************)
EXTENDS Integers, Sequences, FiniteSets, TLC

\* ------------------------------------------------------------------ bounds
MaxUserActions == 2       \* user tasks followed in one session
EffectFuel == 4           \* render/effect rounds run after one task
MaxStored == 3            \* items of the history list found in localStorage
MaxInterests == 3         \* interests of one POST /places request

\* ------------------------------------------------------- program constants
PLACE_CACHE_RADIUS_METERS == 1000
PLACE_NAME_RADIUS_METERS == 10000
HISTORY_LIMIT == 40
\* radius 6371000 m * pi / 180 * 1e-5 degree per unit, in 1e-4 m
METERS_PER_UNIT_E4 == 11119
MAX_IMAGES == 6
PLACES_LIMIT == 12
SERPER_MAPS_ZOOM == 16
PPLX_MAX_RETRIES == 1
Infinity == 1000000000

DEFAULT_INTEREST == "attractions"
OPTIONAL_INTERESTS == <<"food", "shopping">>
FALLBACK_LABEL == "Open ocean"

\* ------------------------------------------------------------ input sets
\* Clickable latitudes (1e-5 degree): 0 and 600 are 667 m apart, 4500 is
\* 5.0 km from 0 and 4.3 km from 600.
Lats == {0, 600, 4500}
LatLng(lat) == [lat |-> lat, lng |-> 0]

\* The name the geocoder resolves for a coordinate of the model.
GeocodedName(lat) == IF lat < 4000 THEN "Paris, France" ELSE "Lyon, France"

Min(a, b) == IF a <= b THEN a ELSE b
Abs(x) == IF x < 0 THEN 0 - x ELSE x
Range(s) == {s[i] : i \in 1..Len(s)}
Take(s, n) == SubSeq(s, 1, Min(n, Len(s)))

FilterSeq(s, keep) ==
  LET Kept(x) == keep[x]
  IN SelectSeq(s, Kept)

\* ------------------------------------------------------------ Geo-Identity
\* toFixed(4): round a 1e-5 degree latitude to 1e-4 degree.
toFixed4(x) == IF x >= 0 THEN (x + 5) \div 10 ELSE 0 - ((5 - x) \div 10)

buildPlaceId(lat, lng) == ToString(toFixed4(lat)) \o "," \o ToString(toFixed4(lng))

\* trim, lowercase, collapse whitespace, tabulated on the titles of the model.
normalizePlaceKey(value) ==
  CASE value = "Paris, France" -> "paris, france"
    [] value = "  paris,   FRANCE " -> "paris, france"
    [] value = "Lyon, France" -> "lyon, france"
    [] value = "Open ocean" -> "open ocean"
    [] value = "Unknown location" -> "unknown location"
    [] value = "Resolving place..." -> "resolving place..."
    [] value = "No selection" -> "no selection"
    [] OTHER -> value

getPlaceNameKey(place) ==
  IF "title" \in DOMAIN place /\ normalizePlaceKey(place.title) # ""
    THEN normalizePlaceKey(place.title)
  ELSE IF "id" \in DOMAIN place THEN normalizePlaceKey(place.id)
  ELSE ""

IsFinite(x) == x # Infinity

\* 2 * radius * asin(sqrt(h)) with dLng = 0 is radius * |dLat| (radians):
\* 1.1119 m per unit of latitude, rounded down to whole metres (the whole
\* metres and the 0.1119 m per unit are added up separately, which keeps
\* the product within 32 bits).
distanceMeters(a, b) ==
  IF ~("lat" \in DOMAIN a /\ "lng" \in DOMAIN a /\ "lat" \in DOMAIN b /\ "lng" \in DOMAIN b)
    THEN Infinity
  ELSE IF ~(IsFinite(a.lat) /\ IsFinite(a.lng) /\ IsFinite(b.lat) /\ IsFinite(b.lng))
    THEN Infinity
  ELSE Abs(a.lat - b.lat)
         + (Abs(a.lat - b.lat) * (METERS_PER_UNIT_E4 - 10000)) \div 10000

isSamePlaceByRadius(a, b, radius) ==
  LET distance == distanceMeters(a, b)
  IN IsFinite(distance) /\ distance <= radius

isSamePlaceByName(a, b) ==
  LET keyA == getPlaceNameKey(a)
      keyB == getPlaceNameKey(b)
  IN keyA # "" /\ keyB # "" /\ keyA = keyB

\* An equivalence for lists that ignores names.
isSamePlaceForListsByRadiusOnly(a, b) ==
  isSamePlaceByRadius(a, b, PLACE_CACHE_RADIUS_METERS)

isSamePlaceForLists(a, b) ==
  \/ isSamePlaceByRadius(a, b, PLACE_CACHE_RADIUS_METERS)
  \/ (isSamePlaceByName(a, b) /\ isSamePlaceByRadius(a, b, PLACE_NAME_RADIUS_METERS))

isSamePlaceForCache(a, b) == isSamePlaceByRadius(a, b, PLACE_CACHE_RADIUS_METERS)

RECURSIVE dedupeInto(_, _)

\* A dedupe in which the last occurrence wins.
dedupeIntoLastWins(next, places) ==
  IF places = <<>> THEN next
  ELSE LET place == Head(places)
           hasDuplicate == \E i \in 1..Len(next) : isSamePlaceForLists(next[i], place)
       IN dedupeInto(IF hasDuplicate
                       THEN [i \in 1..Len(next) |->
                               IF isSamePlaceForLists(next[i], place) THEN place ELSE next[i]]
                       ELSE Append(next, place),
                     Tail(places))

dedupeInto(next, places) ==
  IF places = <<>> THEN next
  ELSE LET place == Head(places)
           hasDuplicate == \E i \in 1..Len(next) : isSamePlaceForLists(next[i], place)
       IN dedupeInto(IF hasDuplicate THEN next ELSE Append(next, place), Tail(places))

\* A dedupe that keeps every place.
keepPlaces(places) == places

\* The loop pushes every place when no place is equivalent to an earlier
\* one, so the list comes back as it is.
dedupePlaces(places) ==
  IF \A i, j \in 1..Len(places) : i < j => ~isSamePlaceForLists(places[i], places[j])
    THEN places
  ELSE dedupeInto(<<>>, places)

\* {...a, ...b}
Spread(a, b) ==
  IF DOMAIN a \subseteq DOMAIN b THEN b
  ELSE [k \in DOMAIN a \cup DOMAIN b |-> IF k \in DOMAIN b THEN b[k] ELSE a[k]]

\* ------------------------------------------------------------------ state
VARIABLES
  requestIdRef, placesRequestIdRef,
  aiAbortRef, weatherAbortRef, geoAbortRef, placesAbortRef,
  status, coords, summary, images, sources,
  placesGroups, placesStatus, placesError, selectedInterests, exploreModalOpen,
  isCachedView, bookmarks, history,
  weather, weatherStatus, weatherError, placeName, geoStatus, aiError,
  isMobile, storage, storageFault, inflight, microtasks,
  selKind, selections, cleared, userActions, budget,
  env, request, upstream, response, aiService

refVars == <<requestIdRef, placesRequestIdRef,
             aiAbortRef, weatherAbortRef, geoAbortRef, placesAbortRef>>
viewVars == <<status, coords, summary, images, sources,
              placesGroups, placesStatus, placesError, selectedInterests,
              exploreModalOpen, isCachedView,
              weather, weatherStatus, weatherError, placeName, geoStatus, aiError>>
storeVars == <<bookmarks, history, storage, storageFault>>
ghostVars == <<selKind, selections, cleared>>
\* The API server: its environment, the request it handles, the calls it
\* has issued to the services behind it, its response, and its AI service:
\* the module that is linked (the chat completions client of services/ai.ts
\* or the module that calls fetch itself) and the latter's timeout timer.
apiVars == <<env, request, upstream, response, aiService>>
clientVars == <<refVars, viewVars, storeVars, isMobile, inflight, microtasks, ghostVars,
                userActions, budget>>
vars == <<clientVars, apiVars>>

\* Date.now(): the clock reads one tick more after every user task.
now == userActions + 1

\* Values of the view.  coords is <<>> (null) or <<[lat, lng]>>.
NoWeather == [k |-> "none", rid |-> 0, lat |-> 0]
NoSummary == [text |-> "", rid |-> 0]
SummaryUnavailable == [text |-> "Summary unavailable.", rid |-> 0]
Undefined == 0 - 1

\* The React state of one render, as a record.
View ==
  [status |-> status, coords |-> coords, summary |-> summary, images |-> images,
   sources |-> sources, placesGroups |-> placesGroups, placesStatus |-> placesStatus,
   placesError |-> placesError, selectedInterests |-> selectedInterests,
   exploreModalOpen |-> exploreModalOpen, isCachedView |-> isCachedView,
   weather |-> weather, weatherStatus |-> weatherStatus, weatherError |-> weatherError,
   placeName |-> placeName, geoStatus |-> geoStatus, aiError |-> aiError]

\* A network operation in flight.  rid is the token its continuation
\* captured (requestId, or the places requestId for a places search), sel the
\* selection token current when it was started.
Op(kind, rid, lat) ==
  [kind |-> kind, rid |-> rid, sel |-> rid, lat |-> lat, stage |-> "fetch", ok |-> TRUE,
   label |-> "", interests |-> <<>>, append |-> FALSE, snap |-> <<>>,
   bookmarked |-> FALSE]

\* ------------------------------------------------------- derived view state
displayPlaceName(v) ==
  IF v.coords = <<>> THEN "No selection"
  ELSE IF v.geoStatus = "loading" THEN "Resolving place..."
  ELSE IF v.placeName # "" THEN v.placeName
  ELSE "Open ocean"

\* Drops the <think> block of a summary and trims it.
cleanedSummary(v) ==
  IF v.summary.text = "" THEN NoSummary
  ELSE IF v.summary.text = "think+text" THEN [v.summary EXCEPT !.text = "text"]
  ELSE v.summary

buildSavedPlace(v, t) ==
  LET c == v.coords[1]
      summaryText ==
        IF cleanedSummary(v).text # "" THEN cleanedSummary(v)
        ELSE IF v.summary.text # "" THEN v.summary
        ELSE SummaryUnavailable
      title == IF displayPlaceName(v) # "" THEN displayPlaceName(v) ELSE "Unknown location"
  IN [id |-> buildPlaceId(c.lat, c.lng),
      title |-> title,
      lat |-> c.lat,
      lng |-> c.lng,
      summary |-> summaryText,
      images |-> v.images,
      sources |-> v.sources,
      placesGroups |-> v.placesGroups,
      placesError |-> v.placesError,
      placesStatus |-> v.placesStatus,
      weather |-> v.weather,
      weatherStatus |-> v.weatherStatus,
      weatherError |-> v.weatherError,
      image |-> IF v.images = <<>> THEN Undefined ELSE v.images[1],
      savedAt |-> t]

isBookmarked(bm, c) ==
  IF c = <<>> THEN FALSE
  ELSE \E i \in 1..Len(bm) : isSamePlaceForLists(bm[i], c[1])

\* -------------------------------------------------------------- Place Store
\* A lookup that searches the history before the bookmarks.
findCachedPlaceHistoryFirst(bm, hist, lat, lng) ==
  LET needle == [lat |-> lat, lng |-> lng]
      inB == {i \in 1..Len(bm) : isSamePlaceForCache(bm[i], needle)}
      inH == {i \in 1..Len(hist) : isSamePlaceForCache(hist[i], needle)}
      first(S) == CHOOSE i \in S : \A j \in S : i <= j
  IN IF inH # {} THEN <<hist[first(inH)]>>
     ELSE IF inB # {} THEN <<bm[first(inB)]>>
     ELSE <<>>

findCachedPlace(bm, hist, lat, lng) ==
  LET needle == [lat |-> lat, lng |-> lng]
      inB == {i \in 1..Len(bm) : isSamePlaceForCache(bm[i], needle)}
      inH == {i \in 1..Len(hist) : isSamePlaceForCache(hist[i], needle)}
      first(S) == CHOOSE i \in S : \A j \in S : i <= j
  IN IF inB # {} THEN <<bm[first(inB)]>>
     ELSE IF inH # {} THEN <<hist[first(inH)]>>
     ELSE <<>>

NotSameAs(list, entry) ==
  FilterSeq(list, [x \in Range(list) |-> ~isSamePlaceForLists(x, entry)])

FindSame(list, entry) ==
  LET S == {i \in 1..Len(list) : isSamePlaceForLists(list[i], entry)}
  IN IF S = {} THEN [x \in {} |-> 0] ELSE list[CHOOSE i \in S : \A j \in S : i <= j]

\* An upsert in which the fields of the existing record win.
updateHistoryEntryExistingWins(prev, entry) ==
  LET existing == FindSame(prev, entry)
      merged == Spread(entry, existing)
      next == <<merged>> \o NotSameAs(prev, entry)
  IN Take(next, HISTORY_LIMIT)

\* An upsert that keeps every record.
updateHistoryEntryNoLimit(prev, entry) ==
  LET existing == FindSame(prev, entry)
      merged == Spread(existing, entry)
  IN <<merged>> \o NotSameAs(prev, entry)

updateHistoryEntry(prev, entry) ==
  LET existing == FindSame(prev, entry)
      merged == Spread(existing, entry)
      next == <<merged>> \o NotSameAs(prev, entry)
  IN Take(next, HISTORY_LIMIT)

\* A merge that keeps the stored record's id.
updateBookmarkEntryKeepsId(prev, entry) ==
  [i \in 1..Len(prev) |->
     IF isSamePlaceForLists(prev[i], entry)
       THEN [Spread(prev[i], entry) EXCEPT !.savedAt = prev[i].savedAt, !.id = prev[i].id]
       ELSE prev[i]]

\* A merge that takes the entry's savedAt too.
updateBookmarkEntryTakesSavedAt(prev, entry) ==
  [i \in 1..Len(prev) |->
     IF isSamePlaceForLists(prev[i], entry) THEN Spread(prev[i], entry) ELSE prev[i]]

updateBookmarkEntry(prev, entry) ==
  [i \in 1..Len(prev) |->
     IF isSamePlaceForLists(prev[i], entry)
       THEN [Spread(prev[i], entry) EXCEPT !.savedAt = prev[i].savedAt]
       ELSE prev[i]]

\* The setHistory updater of applyCachedPlace.
replayIntoHistory(prev, place, t) ==
  LET existing == FindSame(prev, place)
      nextEntry == [Spread(Spread(existing, place), [savedAt |-> t]) EXCEPT !.savedAt = t]
      next == <<nextEntry>> \o NotSameAs(prev, nextEntry)
  IN Take(next, HISTORY_LIMIT)

\* A toggle that always bookmarks.
toggleBookmarkEntryAlwaysAdds(prev, nextEntry) ==
  <<nextEntry>> \o NotSameAs(prev, nextEntry)

toggleBookmarkEntry(prev, nextEntry) ==
  LET exists == \E i \in 1..Len(prev) : isSamePlaceForLists(prev[i], nextEntry)
  IN IF exists THEN NotSameAs(prev, nextEntry)
     ELSE <<nextEntry>> \o NotSameAs(prev, nextEntry)

\* ------------------------------------------------------ render and effects
\* Dependencies of the history sync effect (buildSavedPlace's included).
SyncDeps(v, bm) ==
  <<v.status, v.placesStatus, v.weatherStatus, v.summary, v.images, v.sources,
    v.placesGroups, v.weather, v.coords, v.isCachedView, isBookmarked(bm, v.coords),
    displayPlaceName(v), v.placesError, v.weatherError>>

\* The history sync effect of one render.
HistorySyncEffect(v, h, b, bookmarked, t) ==
  IF v.isCachedView THEN [h |-> h, b |-> b]
  ELSE IF v.coords = <<>> \/ v.status # "ready" THEN [h |-> h, b |-> b]
  ELSE LET entry == buildSavedPlace(v, t)
       IN [h |-> updateHistoryEntry(h, entry),
           b |-> IF bookmarked THEN updateBookmarkEntry(b, entry) ELSE b]

\* One render's effects: the two dedupe updaters are queued before the sync
\* effect's updaters; another render follows while a list or a dependency of
\* the sync effect has changed.
RECURSIVE RunEffects(_, _, _, _, _, _)

\* The lists after the effects of one render.
EffectRound(v, hd, bd, bookmarked, t, run) ==
  IF run THEN HistorySyncEffect(v, hd, bd, bookmarked, t) ELSE [h |-> hd, b |-> bd]

\* Whether the lists s of one render's effects call for another render.
NextRender(v, h, b, t, fuel, s, rerun) ==
  IF (s.h = h /\ s.b = b /\ ~rerun) \/ fuel = 0 THEN s
  ELSE RunEffects(v, s.h, s.b, t, rerun, fuel - 1)

AfterEffects(v, h, b, t, fuel, bookmarked, s) ==
  NextRender(v, h, b, t, fuel, s, isBookmarked(s.b, v.coords) # bookmarked)

RunEffects(v, h, b, t, run, fuel) ==
  AfterEffects(v, h, b, t, fuel, isBookmarked(b, v.coords),
               EffectRound(v, dedupePlaces(h), dedupePlaces(b),
                           isBookmarked(b, v.coords), t, run))

\* The browser's store, as the session finds it: storage holds the arrays
\* under the two keys and storageFault says what is wrong with it.
\*   "none"          nothing
\*   "accessThrows"  window.localStorage throws on every access
\*   "corrupt"       the text under the keys is the JSON of storage cut short
\*   "setItemThrows" reads work, setItem throws (quota exceeded)
ReadFaults == {"accessThrows", "corrupt"}
WriteFaults == {"accessThrows", "setItemThrows"}

\* A save that leaves nothing behind when setItem throws.
saveStoredPlacesDropsOnFailure(fault, stored, lists) ==
  IF fault \in WriteFaults THEN [bookmarks |-> <<>>, history |-> <<>>] ELSE lists

\* saveStoredPlaces for both keys: what the store holds afterwards.
saveStoredPlaces(fault, stored, lists) ==
  IF fault \in WriteFaults THEN stored ELSE lists

\* Commits the view v and the lists s a task and its effects computed, and
\* persists the lists.
Commit(v, s) ==
  /\ history' = s.h
  /\ bookmarks' = s.b
  /\ storage' = saveStoredPlaces(storageFault, storage, [bookmarks |-> s.b, history |-> s.h])
  /\ storageFault' = IF storageFault = "corrupt" THEN "none" ELSE storageFault
  /\ status' = v.status
  /\ coords' = v.coords
  /\ summary' = v.summary
  /\ images' = v.images
  /\ sources' = v.sources
  /\ placesGroups' = v.placesGroups
  /\ placesStatus' = v.placesStatus
  /\ placesError' = v.placesError
  /\ selectedInterests' = v.selectedInterests
  /\ exploreModalOpen' = v.exploreModalOpen
  /\ isCachedView' = v.isCachedView
  /\ weather' = v.weather
  /\ weatherStatus' = v.weatherStatus
  /\ weatherError' = v.weatherError
  /\ placeName' = v.placeName
  /\ geoStatus' = v.geoStatus
  /\ aiError' = v.aiError

\* Renders the state a task computed (view v, lists h and b) and runs the
\* effects of the render.
Render(v, h, b) ==
  /\ Commit(v, RunEffects(v, h, b, now, SyncDeps(v, b) # SyncDeps(View, bookmarks),
                          EffectFuel))
  /\ UNCHANGED apiVars

\* ------------------------------------------------------------ orchestrator
isAbortError(err) == err = "abort"

\* requestId !== requestIdRef.current is false
IsCurrentRequest(requestId) == requestId = requestIdRef

\* A places search that takes every continuation for current.
AnyPlacesRequest(requestId) == TRUE

\* requestId !== placesRequestIdRef.current is false
IsCurrentPlacesRequest(requestId) == requestId = placesRequestIdRef

\* The operations whose controller abortRequests aborts.
AbortedByAbortRequests ==
  {op \in inflight :
     \/ (op.kind = "ai" /\ aiAbortRef)
     \/ (op.kind = "weather" /\ weatherAbortRef)
     \/ (op.kind = "geo" /\ geoAbortRef)
     \/ (op.kind = "places" /\ placesAbortRef)}

\* The view state common to resetSelection, handleSelectLocation and
\* applyCachedPlace: dialogs closed, interest selection emptied.
ClosedDialogs(v) == [v EXCEPT !.selectedInterests = <<>>, !.exploreModalOpen = FALSE]

resetSelectionView(v) ==
  [ClosedDialogs(v) EXCEPT
     !.status = "idle", !.isCachedView = FALSE, !.coords = <<>>,
     !.geoStatus = "idle", !.placeName = "", !.summary = NoSummary, !.aiError = "",
     !.images = <<>>, !.sources = <<>>, !.placesGroups = <<>>,
     !.placesStatus = "idle", !.placesError = "",
     !.weather = NoWeather, !.weatherStatus = "idle", !.weatherError = ""]

\* handleSelectLocation on a cache miss, up to the call of runPlacesSearch.
selectLocationView(v, lat) ==
  [ClosedDialogs(v) EXCEPT
     !.isCachedView = FALSE, !.status = "loading", !.coords = <<LatLng(lat)>>,
     !.geoStatus = "loading", !.placeName = "", !.summary = NoSummary, !.aiError = "",
     !.images = <<>>, !.sources = <<>>, !.placesGroups = <<>>,
     !.placesStatus = "idle", !.placesError = "",
     !.weather = NoWeather, !.weatherStatus = "loading", !.weatherError = ""]

\* runPlacesSearch up to its first await.
runPlacesSearchView(v, append) ==
  [v EXCEPT !.placesStatus = "loading", !.placesError = "",
            !.placesGroups = IF append THEN @ ELSE <<>>]

Field(place, k, default) == IF k \in DOMAIN place THEN place[k] ELSE default

\* A replay that derives the places status from the groups instead of
\* keeping the record's.
applyCachedPlaceDerivesStatus(v, place, overrideCoords) ==
  LET groups == Field(place, "placesGroups", <<>>)
      w == Field(place, "weather", NoWeather)
  IN [ClosedDialogs(v) EXCEPT
        !.isCachedView = TRUE, !.status = "ready",
        !.coords = IF overrideCoords # <<>> THEN overrideCoords
                   ELSE <<[lat |-> place.lat, lng |-> place.lng]>>,
        !.geoStatus = "ready",
        !.placeName = IF Field(place, "title", "") # "" THEN place.title
                      ELSE "Unknown location",
        !.summary = Field(place, "summary", NoSummary),
        !.aiError = "",
        !.images = Field(place, "images", <<>>),
        !.sources = Field(place, "sources", <<>>),
        !.placesGroups = groups,
        !.placesStatus = IF groups # <<>> THEN "ready" ELSE "idle",
        !.placesError = Field(place, "placesError", ""),
        !.weather = w,
        !.weatherStatus = IF Field(place, "weatherStatus", "") # "" THEN place.weatherStatus
                          ELSE IF w # NoWeather THEN "ready" ELSE "idle",
        !.weatherError = Field(place, "weatherError", "")]

\* The view state set by applyCachedPlace.
applyCachedPlaceView(v, place, overrideCoords) ==
  LET groups == Field(place, "placesGroups", <<>>)
      w == Field(place, "weather", NoWeather)
  IN [ClosedDialogs(v) EXCEPT
        !.isCachedView = TRUE, !.status = "ready",
        !.coords = IF overrideCoords # <<>> THEN overrideCoords
                   ELSE <<[lat |-> place.lat, lng |-> place.lng]>>,
        !.geoStatus = "ready",
        !.placeName = IF Field(place, "title", "") # "" THEN place.title
                      ELSE "Unknown location",
        !.summary = Field(place, "summary", NoSummary),
        !.aiError = "",
        !.images = Field(place, "images", <<>>),
        !.sources = Field(place, "sources", <<>>),
        !.placesGroups = groups,
        !.placesStatus = IF Field(place, "placesStatus", "") # "" THEN place.placesStatus
                         ELSE IF groups # <<>> THEN "ready" ELSE "idle",
        !.placesError = Field(place, "placesError", ""),
        !.weather = w,
        !.weatherStatus = IF Field(place, "weatherStatus", "") # "" THEN place.weatherStatus
                          ELSE IF w # NoWeather THEN "ready" ELSE "idle",
        !.weatherError = Field(place, "weatherError", "")]

\* --- continuations: the view a settled promise's handlers leave ---
WeatherData(op) == [k |-> op.kind, rid |-> op.rid, lat |-> op.lat]

ErrorMessage(kind, res) ==
  IF res = "neterr" THEN "Failed to fetch"
  ELSE IF kind = "weather" THEN "Weather request failed (500)"
  ELSE IF kind = "ai" THEN "AI request failed (500)"
  ELSE "Places request failed."

\* A weather failure that also ends the selection.
weatherFailureEndsSelection(v, op, res) ==
  IF res = "ok"
    THEN IF op.rid # requestIdRef THEN v
         ELSE [v EXCEPT !.weather = [k |-> op.kind, rid |-> op.rid, lat |-> op.lat],
                        !.weatherStatus = "ready"]
  ELSE IF op.rid # requestIdRef THEN v
  ELSE IF res = "abort" THEN v
  ELSE [v EXCEPT !.weatherError = "Weather request failed (500)",
                 !.weatherStatus = "error", !.status = "idle"]

\* then/catch of weatherPromise.
weatherSettledView(v, op, res) ==
  IF res = "ok"
    THEN IF ~IsCurrentRequest(op.rid) THEN v
         ELSE [v EXCEPT !.weather = WeatherData(op), !.weatherStatus = "ready"]
  ELSE IF ~IsCurrentRequest(op.rid) THEN v
  ELSE IF isAbortError(res) THEN v
  ELSE [v EXCEPT !.weatherError = ErrorMessage("weather", res), !.weatherStatus = "error"]

\* The outcomes with which reverseGeocode resolves: the label of the first
\* feature ("ok"), or the fallback when the response is not OK or holds no
\* feature ("nofeature").  It rejects on "neterr" and "abort".
GeoResolved == {"ok", "nofeature"}

reverseGeocode(lat, res) == IF res = "ok" THEN GeocodedName(lat) ELSE FALLBACK_LABEL

\* The label the first then/catch of the chain hand to the AI step: ""
\* stands for null.
geoBestLabel(op, res) ==
  IF res \in GeoResolved
    THEN IF ~IsCurrentRequest(op.rid) THEN "" ELSE reverseGeocode(op.lat, res)
  ELSE IF ~IsCurrentRequest(op.rid) THEN ""
  ELSE IF isAbortError(res) THEN ""
  ELSE FALLBACK_LABEL

geoSettledView(v, op, res) ==
  IF res \in GeoResolved
    THEN IF ~IsCurrentRequest(op.rid) THEN v
         ELSE [v EXCEPT !.placeName = reverseGeocode(op.lat, res), !.geoStatus = "ready"]
  ELSE IF ~IsCurrentRequest(op.rid) THEN v
  ELSE IF isAbortError(res) THEN v
  ELSE [v EXCEPT !.placeName = FALLBACK_LABEL, !.geoStatus = "error"]

\* The third then of the chain: whether fetchAiSummary is called.
issuesAiSummary(op, bestLabel) == bestLabel # "" /\ IsCurrentRequest(op.rid)

\* The payload of POST /ai/point: a summary that opens with a <think> block,
\* one image more than the view keeps, one source.
AiImages(op) == [i \in 1..(MAX_IMAGES + 1) |-> 10 * op.rid + i]
AiSources(op) == <<10 * op.rid>>
AiSummary(op) == [text |-> "think+text", rid |-> op.rid]

\* An AI failure that records the error and leaves the status alone.
aiFailureKeepsLoading(v, op, res) ==
  IF res = "ok"
    THEN IF ~IsCurrentRequest(op.rid) THEN v
         ELSE [v EXCEPT !.summary = AiSummary(op),
                        !.images = Take(AiImages(op), MAX_IMAGES),
                        !.sources = AiSources(op),
                        !.status = "ready"]
  ELSE IF ~IsCurrentRequest(op.rid) THEN v
  ELSE IF isAbortError(res) THEN v
  ELSE [v EXCEPT !.aiError = ErrorMessage("ai", res)]

\* The last then/catch of the chain.
aiSettledView(v, op, res) ==
  IF res = "ok"
    THEN IF ~IsCurrentRequest(op.rid) THEN v
         ELSE [v EXCEPT !.summary = AiSummary(op),
                        !.images = Take(AiImages(op), MAX_IMAGES),
                        !.sources = AiSources(op),
                        !.status = "ready"]
  ELSE IF ~IsCurrentRequest(op.rid) THEN v
  ELSE IF isAbortError(res) THEN v
  ELSE [v EXCEPT !.aiError = ErrorMessage("ai", res), !.status = "ready"]

\* A server that answers with every group twice.
PlacesPayloadGroupsTwice(op, res) ==
  IF res = "abort" THEN <<>>
  ELSE [i \in 1..(2 * Len(op.interests)) |->
          [id |-> op.interests[((i - 1) % Len(op.interests)) + 1], sel |-> op.sel,
           n |-> IF res = "results" THEN 1 ELSE 0,
           error |-> IF res = "failed" THEN "Serper error" ELSE ""]]

\* The payload of POST /places: one group per requested interest.
PlacesPayloadGroups(op, res) ==
  IF res = "abort" THEN <<>>
  ELSE [i \in 1..Len(op.interests) |->
          [id |-> op.interests[i], sel |-> op.sel,
           n |-> IF res = "results" THEN 1 ELSE 0,
           error |-> IF res = "failed" THEN "Serper error" ELSE ""]]

PlacesPayloadError(res) == IF res = "failed" THEN "Serper error" ELSE ""

\* A refinement that replaces the list by the groups of the response.
replaceGroups(existing, nextGroups) == nextGroups

\* new Map(existing), byId.set for each next group, Array.from(values).
RECURSIVE mergeGroupsById(_, _)
mergeGroupsById(existing, nextGroups) ==
  IF nextGroups = <<>> THEN existing
  ELSE LET group == Head(nextGroups)
           at == {i \in 1..Len(existing) : existing[i].id = group.id}
       IN mergeGroupsById(
            IF at = {} THEN Append(existing, group)
            ELSE [i \in 1..Len(existing) |-> IF i \in at THEN group ELSE existing[i]],
            Tail(nextGroups))

\* runPlacesSearch after `await response.json().catch(() => ({}))`.
placesBodyView(v, op, res) ==
  IF ~IsCurrentPlacesRequest(op.rid) THEN v
  ELSE IF ~op.ok
    THEN [v EXCEPT !.placesError = ErrorMessage("places", "httpfail"),
                   !.placesStatus = "error"]
  ELSE LET nextGroups == PlacesPayloadGroups(op, res)
           payloadError == PlacesPayloadError(res)
           hasDefault == \E i \in 1..Len(op.interests) : op.interests[i] = DEFAULT_INTEREST
           hasResults == \E i \in 1..Len(nextGroups) : nextGroups[i].n > 0
           shouldSurfaceError ==
             payloadError # "" /\ ~op.append /\ hasDefault /\ ~hasResults
       IN [v EXCEPT
             !.placesGroups = IF op.append THEN mergeGroupsById(@, nextGroups)
                              ELSE nextGroups,
             !.placesError = IF shouldSurfaceError THEN payloadError ELSE "",
             !.placesStatus = IF shouldSurfaceError THEN "error" ELSE "ready"]

\* runPlacesSearch's catch when fetch itself rejects.
placesRejectedView(v, op, res) ==
  IF ~IsCurrentPlacesRequest(op.rid) THEN v
  ELSE IF isAbortError(res) THEN v
  ELSE [v EXCEPT !.placesError = ErrorMessage("places", res), !.placesStatus = "error"]

\* handleRefreshWeather after its await.
refreshSettledView(v, op, res) ==
  IF res = "ok"
    THEN [v EXCEPT !.weather = WeatherData(op), !.weatherStatus = "ready"]
  ELSE [v EXCEPT !.weatherError = ErrorMessage("weather", res), !.weatherStatus = "error"]

refreshEntry(op, t) ==
  [op.snap[1] EXCEPT !.savedAt = t, !.weather = WeatherData(op),
                     !.weatherStatus = "ready", !.weatherError = ""]

\* optionalInterestsForModal: the optional interests no group exists for.
optionalInterestsForModal(v) ==
  {OPTIONAL_INTERESTS[i] : i \in 1..Len(OPTIONAL_INTERESTS)}
    \ {v.placesGroups[i].id : i \in 1..Len(v.placesGroups)}

\* showPlacesBlock && coords: the "Refine places" button is rendered.
showPlacesBlock(v) ==
  LET placesHasResults == \E i \in 1..Len(v.placesGroups) : v.placesGroups[i].n > 0
  IN /\ v.coords # <<>>
     /\ v.status # "idle"
     /\ \/ placesHasResults
        \/ v.placesStatus \in {"ready", "error"}
        \/ (v.placesStatus = "loading" /\ v.selectedInterests # <<>>)

\* ------------------------------------------------------------------ Init
\* A record persisted by an earlier session (its data carry token 0).
StoredPlace(lat, title) ==
  [id |-> buildPlaceId(lat, 0), title |-> title, lat |-> lat, lng |-> 0,
   summary |-> [text |-> "text", rid |-> 0],
   images |-> <<1>>, sources |-> <<0>>,
   placesGroups |-> <<[id |-> DEFAULT_INTEREST, sel |-> 0, n |-> 1, error |-> ""]>>,
   placesError |-> "", placesStatus |-> "ready",
   weather |-> [k |-> "weather", rid |-> 0, lat |-> lat],
   weatherStatus |-> "ready", weatherError |-> "",
   image |-> 1, savedAt |-> 0]

\* What localStorage may hold at startup.
StoredLists ==
  {[bookmarks |-> <<>>, history |-> <<>>],
   [bookmarks |-> <<StoredPlace(0, "Paris, France")>>,
    history |-> <<StoredPlace(0, "Paris, France")>>]}

\* An item of the parsed array that is not an object (null, a number, a
\* string) is the record [json |-> its text].
IsObject(item) == "json" \notin DOMAIN item

\* parsed.filter((item) => item && typeof item === "object")
loadStoredPlaces(stored) == FilterSeq(stored, [x \in Range(stored) |-> IsObject(x)])

\* loadStoredPlaces(key) on a store with a fault: getItem or JSON.parse
\* throws and the catch returns [].
loadStoredKey(fault, stored) ==
  IF fault \in ReadFaults THEN <<>> ELSE loadStoredPlaces(stored)

\* The API server with the environment e and no request.
NoRequest == [route |-> "none"]
NoResponse == [status |-> 0]
ApiIdle(e) ==
  /\ env = e
  /\ request = NoRequest
  /\ upstream = <<>>
  /\ response = NoResponse
  /\ aiService = [module |-> "client", timer |-> "none"]

\* process.env of a deployment with every key set.
Configured == [SERPER_API_KEY |-> TRUE, PERPLEXITY_API_KEY |-> TRUE]

\* The state after the App component has mounted with `stored` in a
\* localStorage with the fault `fault`; the session is followed for `tasks`
\* user tasks.
AppMounted(stored, fault, mobile, tasks) ==
  /\ requestIdRef = 0
  /\ placesRequestIdRef = 0
  /\ aiAbortRef = FALSE
  /\ weatherAbortRef = FALSE
  /\ geoAbortRef = FALSE
  /\ placesAbortRef = FALSE
  /\ status = "idle"
  /\ coords = <<>>
  /\ summary = NoSummary
  /\ images = <<>>
  /\ sources = <<>>
  /\ placesGroups = <<>>
  /\ placesStatus = "idle"
  /\ placesError = ""
  /\ selectedInterests = <<>>
  /\ exploreModalOpen = FALSE
  /\ isCachedView = FALSE
  /\ storage = stored
  /\ storageFault = fault
  /\ bookmarks = dedupePlaces(loadStoredKey(fault, stored.bookmarks))
  /\ history = dedupePlaces(loadStoredKey(fault, stored.history))
  /\ weather = NoWeather
  /\ weatherStatus = "idle"
  /\ weatherError = ""
  /\ placeName = ""
  /\ geoStatus = "idle"
  /\ aiError = ""
  /\ isMobile = mobile
  /\ inflight = {}
  /\ microtasks = {}
  /\ selKind = "none"
  /\ cleared = FALSE
  /\ selections = 0
  /\ userActions = 0
  /\ budget = tasks

\* The App mounted, and the API server it talks to.
StartOn(stored, fault, mobile, tasks) ==
  AppMounted(stored, fault, mobile, tasks) /\ ApiIdle(Configured)

\* The same on a store that works.
Start(stored, mobile, tasks) == StartOn(stored, "none", mobile, tasks)

Init == \E stored \in StoredLists : \E mobile \in BOOLEAN :
          Start(stored, mobile, MaxUserActions)

\* --------------------------------------------------------------- user tasks
\* No task starts while rejected promises still have continuations queued.
Idle == microtasks = {}

\* A task started by the user; the model follows `budget` of them.
UserTask ==
  /\ Idle
  /\ userActions < budget
  /\ userActions' = userActions + 1
  /\ UNCHANGED budget

\* A task started by the network or the clock.
NetworkTask == Idle /\ UNCHANGED <<userActions, budget>>

\* A click on the map that findCachedPlace resolves.
SelectLocationHit(lat) ==
  /\ UserTask /\ ~exploreModalOpen
  /\ findCachedPlace(bookmarks, history, lat, 0) # <<>>
  /\ LET cached == findCachedPlace(bookmarks, history, lat, 0)[1]
     IN Render(applyCachedPlaceView(View, cached, <<LatLng(lat)>>),
               replayIntoHistory(history, cached, now), bookmarks)
  /\ microtasks' = AbortedByAbortRequests
  /\ inflight' = inflight \ AbortedByAbortRequests
  /\ aiAbortRef' = FALSE /\ weatherAbortRef' = FALSE
  /\ geoAbortRef' = FALSE /\ placesAbortRef' = FALSE
  /\ selKind' = "hit" /\ selections' = selections + 1 /\ cleared' = FALSE
  /\ UNCHANGED <<requestIdRef, placesRequestIdRef, isMobile>>

\* A click on the map that misses the cache.
SelectLocationMiss(lat) ==
  /\ UserTask /\ ~exploreModalOpen
  /\ findCachedPlace(bookmarks, history, lat, 0) = <<>>
  /\ LET requestId == requestIdRef + 1
         placesId == placesRequestIdRef + 2
         started ==
           {Op("weather", requestId, lat), Op("geo", requestId, lat)}
             \cup (IF isMobile THEN {}
                   ELSE {[Op("places", placesId, lat) EXCEPT
                            !.sel = requestId, !.interests = <<DEFAULT_INTEREST>>]})
         v == selectLocationView(View, lat)
     IN /\ requestIdRef' = requestId
        /\ placesRequestIdRef' = IF isMobile THEN placesRequestIdRef + 1 ELSE placesId
        /\ inflight' = (inflight \ AbortedByAbortRequests) \cup started
        /\ Render(IF isMobile THEN v ELSE runPlacesSearchView(v, FALSE),
                  history, bookmarks)
  /\ microtasks' = AbortedByAbortRequests
  /\ aiAbortRef' = TRUE /\ weatherAbortRef' = TRUE /\ geoAbortRef' = TRUE
  /\ placesAbortRef' = ~isMobile
  /\ selKind' = "miss" /\ selections' = selections + 1 /\ cleared' = FALSE
  /\ UNCHANGED <<isMobile>>

handleSelectLocation(lat) == SelectLocationHit(lat) \/ SelectLocationMiss(lat)

\* A click on an entry of the bookmarks or history panel.
handleSelectSavedPlace(place) ==
  /\ UserTask /\ ~exploreModalOpen /\ ~isMobile
  /\ Render(applyCachedPlaceView(View, place, <<>>),
            replayIntoHistory(history, place, now), bookmarks)
  /\ selKind' = "saved" /\ selections' = selections + 1 /\ cleared' = FALSE
  /\ UNCHANGED <<refVars, isMobile, inflight, microtasks>>

\* The stop button.
resetSelection ==
  /\ UserTask /\ ~exploreModalOpen /\ ~isMobile
  /\ coords # <<>> /\ status = "loading"
  /\ requestIdRef' = requestIdRef + 1
  /\ placesRequestIdRef' = placesRequestIdRef + 1
  /\ microtasks' = AbortedByAbortRequests
  /\ inflight' = inflight \ AbortedByAbortRequests
  /\ aiAbortRef' = FALSE /\ weatherAbortRef' = FALSE
  /\ geoAbortRef' = FALSE /\ placesAbortRef' = FALSE
  /\ Render(resetSelectionView(View), history, bookmarks)
  /\ selKind' = "none"
  /\ UNCHANGED <<isMobile, selections, cleared>>

handleBookmarkToggle ==
  /\ UserTask /\ ~exploreModalOpen /\ ~isMobile
  /\ coords # <<>>
  /\ Render(View, history, toggleBookmarkEntry(bookmarks, buildSavedPlace(View, now)))
  /\ cleared' = FALSE
  /\ UNCHANGED <<refVars, isMobile, inflight, microtasks, selKind, selections>>

handleClearHistory ==
  /\ UserTask /\ ~exploreModalOpen /\ ~isMobile
  /\ history # <<>>
  /\ Render(View, <<>>, <<>>)
  /\ cleared' = TRUE
  /\ UNCHANGED <<refVars, isMobile, inflight, microtasks, selKind, selections>>

\* The weather refresh button: starts an operation with no token and no
\* controller; its continuation keeps the closure of this render.
handleRefreshWeather ==
  /\ UserTask /\ ~exploreModalOpen
  /\ coords # <<>> /\ status # "idle"
  /\ weatherStatus # "loading"
  /\ inflight' = inflight \cup
       {[Op("refresh", requestIdRef, coords[1].lat) EXCEPT
           !.sel = requestIdRef, !.snap = <<buildSavedPlace(View, now)>>,
           !.bookmarked = isBookmarked(bookmarks, coords)]}
  /\ Render([View EXCEPT !.weatherStatus = "loading", !.weatherError = ""],
            history, bookmarks)
  /\ UNCHANGED <<refVars, isMobile, microtasks, ghostVars>>

\* The "Refine places" button.
handleResetExplore ==
  /\ UserTask /\ ~exploreModalOpen /\ ~isMobile
  /\ showPlacesBlock(View)
  /\ Render([View EXCEPT !.selectedInterests = <<>>, !.exploreModalOpen = TRUE,
                         !.placesError = ""],
            history, bookmarks)
  /\ UNCHANGED <<refVars, isMobile, inflight, microtasks, ghostVars>>

CloseExploreModal ==
  /\ UserTask /\ exploreModalOpen
  /\ Render([View EXCEPT !.exploreModalOpen = FALSE], history, bookmarks)
  /\ UNCHANGED <<refVars, isMobile, inflight, microtasks, ghostVars>>

toggleInterest(interestId) ==
  /\ UserTask /\ exploreModalOpen /\ ~isMobile
  /\ interestId \in optionalInterestsForModal(View)
  /\ placesRequestIdRef' = placesRequestIdRef + 1
  /\ Render([View EXCEPT
               !.selectedInterests =
                  IF interestId \in Range(@)
                    THEN FilterSeq(@, [x \in Range(@) |-> x # interestId])
                    ELSE Append(@, interestId),
               !.placesError = ""],
            history, bookmarks)
  /\ UNCHANGED <<requestIdRef, aiAbortRef, weatherAbortRef, geoAbortRef, placesAbortRef,
                 isMobile, inflight, microtasks, ghostVars>>

\* A search that aborts every controller, as abortRequests does.
PlacesSearchAbortsAll == AbortedByAbortRequests

\* The operations runPlacesSearch aborts: those of placesAbortRef.
PlacesSearchAborts == {op \in inflight : op.kind = "places" /\ placesAbortRef}

\* The "Find places" button of the refine dialog.
handleFetchPlaces ==
  /\ UserTask /\ exploreModalOpen /\ ~isMobile
  /\ coords # <<>> /\ selectedInterests # <<>>
  /\ placesStatus # "loading"
  /\ LET interests ==
           FilterSeq(OPTIONAL_INTERESTS,
                     [x \in Range(OPTIONAL_INTERESTS) |-> x \in Range(selectedInterests)])
         previous == PlacesSearchAborts
         requestId == placesRequestIdRef + 1
     IN /\ placesRequestIdRef' = requestId
        /\ microtasks' = previous
        /\ inflight' = (inflight \ previous) \cup
             {[Op("places", requestId, coords[1].lat) EXCEPT
                 !.sel = requestIdRef, !.interests = interests, !.append = TRUE]}
        /\ Render(runPlacesSearchView(
                    [View EXCEPT !.isCachedView = FALSE, !.exploreModalOpen = FALSE], TRUE),
                  history, bookmarks)
  /\ placesAbortRef' = TRUE
  /\ UNCHANGED <<requestIdRef, aiAbortRef, weatherAbortRef, geoAbortRef,
                 isMobile, ghostVars>>

\* ------------------------------------------------------------ network tasks
WeatherSettles(op, res) ==
  /\ NetworkTask
  /\ op \in inflight /\ op.kind = "weather"
  /\ inflight' = inflight \ {op}
  /\ Render(weatherSettledView(View, op, res), history, bookmarks)
  /\ UNCHANGED <<refVars, isMobile, microtasks, ghostVars>>

\* reverseGeocode settles; the chain goes on to fetchAiSummary in the same
\* task when it has a label.
GeoSettles(op, res) ==
  /\ NetworkTask
  /\ op \in inflight /\ op.kind = "geo"
  /\ LET bestLabel == geoBestLabel(op, res)
     IN inflight' = (inflight \ {op}) \cup
          (IF issuesAiSummary(op, bestLabel)
             THEN {[Op("ai", op.rid, op.lat) EXCEPT !.label = bestLabel]}
             ELSE {})
  /\ Render(geoSettledView(View, op, res), history, bookmarks)
  /\ UNCHANGED <<refVars, isMobile, microtasks, ghostVars>>

AiSettles(op, res) ==
  /\ NetworkTask
  /\ op \in inflight /\ op.kind = "ai"
  /\ inflight' = inflight \ {op}
  /\ Render(aiSettledView(View, op, res), history, bookmarks)
  /\ UNCHANGED <<refVars, isMobile, microtasks, ghostVars>>

\* POST /places settles with its body read: `await fetch` resolved with
\* response.ok = ok and response.json() with the payload res.
PlacesSettles(op, ok, res) ==
  /\ NetworkTask
  /\ op \in inflight /\ op.kind = "places"
  /\ ok \/ res = "failed"
  /\ inflight' = inflight \ {op}
  /\ Render(placesBodyView(View, [op EXCEPT !.stage = "body", !.ok = ok], res),
            history, bookmarks)
  /\ UNCHANGED <<refVars, isMobile, microtasks, ghostVars>>

RefreshSettles(op, res) ==
  /\ NetworkTask
  /\ op \in inflight /\ op.kind = "refresh"
  /\ inflight' = inflight \ {op}
  /\ LET nextEntry == refreshEntry(op, now)
     IN Render(refreshSettledView(View, op, res),
               IF res = "ok" THEN updateHistoryEntry(history, nextEntry) ELSE history,
               IF res = "ok" /\ op.bookmarked
                 THEN updateBookmarkEntry(bookmarks, nextEntry) ELSE bookmarks)
  /\ UNCHANGED <<refVars, isMobile, microtasks, ghostVars>>

\* The continuation of an operation whose controller was aborted: fetch (or
\* the read of the body) rejects with an AbortError.  A places search may
\* have been aborted before its headers arrived (stage "fetch") or while its
\* body was read (stage "body", after response.ok = ok).
abortSettledView(v, op) ==
  CASE op.kind = "weather" -> weatherSettledView(v, op, "abort")
    [] op.kind = "geo" -> geoSettledView(v, op, "abort")
    [] op.kind = "ai" -> aiSettledView(v, op, "abort")
    [] op.kind = "places" /\ op.stage = "fetch" -> placesRejectedView(v, op, "abort")
    [] op.kind = "places" /\ op.stage = "body" -> placesBodyView(v, op, "abort")

AbortSettles(op, stage, ok) ==
  /\ op \in microtasks
  /\ op.kind = "places" \/ (stage = "fetch" /\ ok)
  /\ UNCHANGED <<userActions, budget>>
  /\ microtasks' = microtasks \ {op}
  /\ inflight' = inflight \cup
       (IF op.kind = "geo" /\ issuesAiSummary(op, geoBestLabel(op, "abort"))
          THEN {[Op("ai", op.rid, op.lat) EXCEPT !.label = geoBestLabel(op, "abort")]}
          ELSE {})
  /\ Render(abortSettledView(View, [op EXCEPT !.stage = stage, !.ok = ok]),
            history, bookmarks)
  /\ UNCHANGED <<refVars, isMobile, ghostVars>>

\* ------------------------------------------------------------ specification
Next ==
  \/ \E lat \in Lats : handleSelectLocation(lat)
  \/ \E place \in Range(bookmarks) \cup Range(history) : handleSelectSavedPlace(place)
  \/ resetSelection
  \/ handleBookmarkToggle
  \/ handleClearHistory
  \/ handleRefreshWeather
  \/ \E op \in inflight : \E res \in {"ok", "httpfail"} : WeatherSettles(op, res)
  \/ \E op \in inflight : \E res \in {"ok", "nofeature", "neterr"} : GeoSettles(op, res)
  \/ \E op \in inflight : \E res \in {"ok", "httpfail"} : AiSettles(op, res)
  \/ \E op \in inflight : \E ok \in BOOLEAN : \E res \in {"results", "failed"} :
       PlacesSettles(op, ok, res)
  \/ \E op \in inflight : \E res \in {"ok", "httpfail"} : RefreshSettles(op, res)
  \/ \E op \in microtasks : \E stage \in {"fetch", "body"} : \E ok \in BOOLEAN :
       AbortSettles(op, stage, ok)

Spec == Init /\ [][Next]_vars

\* Reverse-geocode and AI-summary operations do not stay pending for ever,
\* and the continuations of rejected promises run: infinitely often none of
\* them is outstanding.
OperationsSettle ==
  []<>(microtasks = {} /\ \A op \in inflight : op.kind \notin {"geo", "ai"})

FairSpec == Spec /\ OperationsSettle

\* A session on a phone (no places search, no saved-places panel), followed
\* for one more user task: selections and standalone weather refreshes.
InitRefresh ==
  Start([bookmarks |-> <<>>, history |-> <<>>], TRUE, MaxUserActions + 1)

NextRefresh ==
  \/ \E lat \in Lats : handleSelectLocation(lat)
  \/ handleRefreshWeather
  \/ \E op \in inflight : \E res \in {"ok", "httpfail"} : WeatherSettles(op, res)
  \/ \E op \in inflight : \E res \in {"ok", "nofeature", "neterr"} : GeoSettles(op, res)
  \/ \E op \in inflight : \E res \in {"ok", "httpfail"} : AiSettles(op, res)
  \/ \E op \in inflight : \E res \in {"ok", "httpfail"} : RefreshSettles(op, res)
  \/ \E op \in microtasks : AbortSettles(op, "fetch", TRUE)

SpecRefresh == InitRefresh /\ [][NextRefresh]_vars

\* A desktop session at one coordinate that refines the places of its
\* selection, followed for five more user tasks: select, then twice open
\* the dialog, toggle an interest, find places.
InitRefine ==
  Start([bookmarks |-> <<>>, history |-> <<>>], FALSE, MaxUserActions + 5)

NextRefine ==
  \/ handleSelectLocation(0)
  \/ handleResetExplore
  \/ CloseExploreModal
  \/ \E i \in 1..Len(OPTIONAL_INTERESTS) : toggleInterest(OPTIONAL_INTERESTS[i])
  \/ handleFetchPlaces
  \/ \E op \in inflight : \E res \in {"ok", "httpfail"} : WeatherSettles(op, res)
  \/ \E op \in inflight : \E res \in {"ok", "nofeature", "neterr"} : GeoSettles(op, res)
  \/ \E op \in inflight : \E res \in {"ok", "httpfail"} : AiSettles(op, res)
  \/ \E op \in inflight : \E ok \in BOOLEAN : \E res \in {"results", "empty", "failed"} :
       PlacesSettles(op, ok, res)
  \/ \E op \in microtasks : \E stage \in {"fetch", "body"} : \E ok \in BOOLEAN :
       AbortSettles(op, stage, ok)

SpecRefine == InitRefine /\ [][NextRefine]_vars

\* A desktop session at one coordinate with the saved-places panel in use,
\* followed for three more user tasks: selections, replays of stored
\* records, bookmark toggles and one refinement.
InitRefineStore ==
  Start([bookmarks |-> <<>>, history |-> <<>>], FALSE, MaxUserActions + 3)

NextRefineStore ==
  \/ handleSelectLocation(0)
  \/ \E place \in Range(bookmarks) \cup Range(history) : handleSelectSavedPlace(place)
  \/ handleBookmarkToggle
  \/ handleResetExplore
  \/ \E i \in 1..Len(OPTIONAL_INTERESTS) : toggleInterest(OPTIONAL_INTERESTS[i])
  \/ handleFetchPlaces
  \/ \E op \in inflight : WeatherSettles(op, "ok")
  \/ \E op \in inflight : GeoSettles(op, "ok")
  \/ \E op \in inflight : \E res \in {"ok", "httpfail"} : AiSettles(op, res)
  \/ \E op \in inflight : \E ok \in BOOLEAN : \E res \in {"results", "empty", "failed"} :
       PlacesSettles(op, ok, res)
  \/ \E op \in microtasks : \E stage \in {"fetch", "body"} : \E ok \in BOOLEAN :
       AbortSettles(op, stage, ok)

SpecRefineStore == InitRefineStore /\ [][NextRefineStore]_vars

\* A session on a phone that fills the history: selections of coordinates
\* 22 km apart, each left to settle before the next, with replays of the
\* oldest record and weather refreshes early in the session, while the
\* history holds two records, and once it is full.
InitHistory ==
  Start([bookmarks |-> <<>>, history |-> <<>>], TRUE, HISTORY_LIMIT + MaxUserActions)

FreshLat == (userActions + 1) * 20000

HistoryProbe ==
  \/ Len(history) = 2 /\ userActions < 2 + MaxUserActions
  \/ Len(history) = HISTORY_LIMIT

NextHistory ==
  \/ (inflight = {} \/ HistoryProbe) /\ handleSelectLocation(FreshLat)
  \/ HistoryProbe /\ handleSelectLocation(history[Len(history)].lat + 600)
  \/ HistoryProbe /\ handleRefreshWeather
  \/ \E op \in inflight : WeatherSettles(op, "ok")
  \/ \E op \in inflight : GeoSettles(op, "ok")
  \/ \E op \in inflight : AiSettles(op, "ok")
  \/ \E op \in inflight : RefreshSettles(op, "ok")
  \/ \E op \in microtasks : AbortSettles(op, "fetch", TRUE)

SpecHistory == InitHistory /\ [][NextHistory]_vars

\* A session that starts with two stored places 1334 m apart under different
\* titles (not equivalent to each other), both bookmarked; a click half way
\* between them is within 1000 m of both.
InitStore ==
  \E mobile \in BOOLEAN :
    Start([bookmarks |-> <<StoredPlace(0, "Paris, France"), StoredPlace(1200, "Open ocean")>>,
           history |-> <<StoredPlace(0, "Paris, France"), StoredPlace(1200, "Open ocean")>>],
          mobile, MaxUserActions)

SpecStore == InitStore /\ [][Next]_vars

\* What a foreign or older writer may have left in localStorage: places
\* 50 m and 1034 m apart under different titles, a place 5 km away whose
\* title differs in case and spacing only, a record without a title whose id
\* is a place name, a record without coordinates, and an item that is not
\* an object.
UntitledPlace == [StoredPlace(4500, "") EXCEPT !.id = "Paris, France"]
BrokenPlace == [id |-> "broken", title |-> "Paris, France", savedAt |-> 0]
JunkItem == [json |-> "null"]

StoredPool ==
  {StoredPlace(0, "Paris, France"), StoredPlace(45, "Open ocean"),
   StoredPlace(930, "Lyon, France"), StoredPlace(4500, "  paris,   FRANCE "),
   UntitledPlace, BrokenPlace, JunkItem}

SeqsUpTo(S, n) == UNION {[1..k -> S] : k \in 0..n}

StoredBookmarkLists ==
  {<<>>, <<StoredPlace(0, "Paris, France")>>,
   <<StoredPlace(930, "Lyon, France"), StoredPlace(0, "Paris, France")>>}

\* The App mounts on what localStorage holds: the useState initializers
\* have run, the effects of the first render have not.
InitLoad ==
  \E h \in SeqsUpTo(StoredPool, MaxStored) : \E b \in StoredBookmarkLists :
    Start([bookmarks |-> b, history |-> h], TRUE, 2)

\* The effects of the first render: dedupe, persist.
MountEffects ==
  /\ userActions = 0
  /\ UserTask
  /\ Render(View, history, bookmarks)
  /\ UNCHANGED <<refVars, isMobile, inflight, microtasks, ghostVars>>

NextLoad ==
  \/ MountEffects
  \/ \E lat \in Lats : userActions > 0 /\ handleSelectLocation(lat)

SpecLoad == InitLoad /\ [][NextLoad]_vars

\* A desktop session on the two stored places of InitStore, followed for
\* one more user task: selections, replays and bookmark toggles, with every
\* request answered.
InitBookmarks ==
  Start([bookmarks |-> <<StoredPlace(0, "Paris, France"), StoredPlace(1200, "Open ocean")>>,
         history |-> <<StoredPlace(0, "Paris, France"), StoredPlace(1200, "Open ocean")>>],
        FALSE, MaxUserActions + 1)

NextBookmarks ==
  \/ \E lat \in Lats : handleSelectLocation(lat)
  \/ \E place \in Range(bookmarks) \cup Range(history) : handleSelectSavedPlace(place)
  \/ handleBookmarkToggle
  \/ \E op \in inflight : WeatherSettles(op, "ok")
  \/ \E op \in inflight : GeoSettles(op, "ok")
  \/ \E op \in inflight : AiSettles(op, "ok")
  \/ \E op \in inflight : PlacesSettles(op, TRUE, "results")
  \/ \E op \in microtasks : AbortSettles(op, "fetch", TRUE)

SpecBookmarks == InitBookmarks /\ [][NextBookmarks]_vars

\* A session on a store with a fault that holds one place under both keys.
InitStorage ==
  \E fault \in ReadFaults \cup WriteFaults : \E mobile \in BOOLEAN :
    StartOn([bookmarks |-> <<StoredPlace(0, "Paris, France")>>,
             history |-> <<StoredPlace(0, "Paris, France")>>],
            fault, mobile, MaxUserActions)

SpecStorage == InitStorage /\ [][Next]_vars

\* A desktop session at one coordinate with the stop button in use,
\* followed for one more user task: select, refresh the weather, stop.
InitStop ==
  Start([bookmarks |-> <<>>, history |-> <<>>], FALSE, MaxUserActions + 1)

NextStop ==
  \/ handleSelectLocation(0)
  \/ handleRefreshWeather
  \/ resetSelection
  \/ \E op \in inflight : \E res \in {"ok", "httpfail"} : WeatherSettles(op, res)
  \/ \E op \in inflight : \E res \in {"ok", "nofeature", "neterr"} : GeoSettles(op, res)
  \/ \E op \in inflight : \E res \in {"ok", "httpfail"} : AiSettles(op, res)
  \/ \E op \in inflight : \E ok \in BOOLEAN : \E res \in {"results", "failed"} :
       PlacesSettles(op, ok, res)
  \/ \E op \in inflight : \E res \in {"ok", "httpfail"} : RefreshSettles(op, res)
  \/ \E op \in microtasks : \E stage \in {"fetch", "body"} : \E ok \in BOOLEAN :
       AbortSettles(op, stage, ok)

SpecStop == InitStop /\ [][NextStop]_vars

\* ================================================================ API server
\* ---------------------------------------------------------------- JSON values
\* A value of a request body, with its JavaScript type.
JUndef == [t |-> "undefined"]
JNull == [t |-> "null"]
JNum(n) == [t |-> "number", n |-> n]
JStr(s) == [t |-> "string", v |-> s]
JArray(items) == [t |-> "array", items |-> items]

\* body?.k
Get(body, k) == IF body.t = "object" /\ k \in DOMAIN body THEN body[k] ELSE JUndef

\* Whether a value is truthy.
Truthy(value) ==
  CASE value.t \in {"undefined", "null"} -> FALSE
    [] value.t = "string" -> value.v # ""
    [] value.t = "number" -> value.n # 0
    [] OTHER -> TRUE

\* A JavaScript number: NaN or a finite value.
NaN == [nan |-> TRUE, v |-> 0]
Num(n) == [nan |-> FALSE, v |-> n]

\* Number(value), tabulated on the strings of the model.
Number(value) ==
  CASE value.t = "number" -> Num(value.n)
    [] value.t = "null" -> Num(0)
    [] value.t = "string" /\ value.v = "" -> Num(0)
    [] value.t = "string" /\ value.v = "48" -> Num(48)
    [] OTHER -> NaN

\* trim() and toLowerCase(), tabulated on the strings of the model.
Trim(s) ==
  CASE s = "  " -> ""
    [] s = " shopping " -> "shopping"
    [] OTHER -> s

toLowerCase(s) ==
  CASE s = "Bottle King" -> "bottle king"
    [] s = "BOTTLE KING" -> "bottle king"
    [] s = "Corner Store" -> "corner store"
    [] s = "Liquor Store" -> "liquor store"
    [] s = "Convenience store" -> "convenience store"
    [] s = "Shopping mall" -> "shopping mall"
    [] s = "Mall" -> "mall"
    [] s = "Bar" -> "bar"
    [] s = "Cafe" -> "cafe"
    [] s = "Museum" -> "museum"
    [] s = "City Park" -> "city park"
    [] s = "Main St" -> "main st"
    [] s = "MAIN ST" -> "main st"
    [] s = "Attractions" -> "attractions"
    [] s = "Nightlife" -> "nightlife"
    [] s = "Shopping" -> "shopping"
    [] s = "Food" -> "food"
    [] OTHER -> s

\* parseLatLng: <<>> is null.
parseLatLng(input) ==
  IF input.t # "object" THEN <<>>
  ELSE LET lat == Number(Get(input, "lat"))
           lng == Number(Get(input, "lng"))
       IN IF lat.nan \/ lng.nan THEN <<>>
          ELSE IF lat.v < 0 - 90 \/ lat.v > 90 THEN <<>>
          ELSE IF lng.v < 0 - 180 \/ lng.v > 180 THEN <<>>
          ELSE <<[lat |-> lat.v, lng |-> lng.v]>>

\* ------------------------------------------------------------ POST /places
\* A text "w n" (n = 0: just "w"); toLowerCase acts on its word.
Text(w, n) == [w |-> w, n |-> n]
NoText == Text("", 0)
lowerText(text) == [text EXCEPT !.w = toLowerCase(@)]

\* normalizePlace: null (<<>>) without a title; rating, reviews, thumbnail
\* and link play no part in grouping and are left out.
normalizePlace(item) ==
  LET title == IF "title" \in DOMAIN item THEN [item.title EXCEPT !.w = Trim(@)] ELSE NoText
  IN IF title.w = "" THEN <<>>
     ELSE <<[title |-> title,
             category |-> IF "category" \in DOMAIN item THEN item.category
                          ELSE IF "type" \in DOMAIN item THEN item.type ELSE "",
             address |-> IF "address" \in DOMAIN item THEN item.address
                         ELSE IF "location" \in DOMAIN item THEN item.location
                         ELSE NoText]>>

\* collected.map(normalizePlace).filter(Boolean)
normalizePlaces(items) ==
  LET mapped == [i \in 1..Len(items) |-> normalizePlace(items[i])]
      NotNull(item) == Len(item) > 0
      kept == SelectSeq(mapped, NotNull)
  IN [i \in 1..Len(kept) |-> kept[i][1]]

\* extractPlaces: the arrays found under the candidate keys, concatenated,
\* normalized, and cut to the first 12.
extractPlaces(data) ==
  LET bucket(k) == IF k \in DOMAIN data THEN data[k] ELSE <<>>
      collected == bucket("places") \o bucket("localResults") \o bucket("local")
                     \o bucket("mapResults")
  IN Take(normalizePlaces(collected), PLACES_LIMIT)

\* haystack.includes(keyword), tabulated on the lower-cased words of the
\* model: the keywords a word contains.
KeywordsIn(word) ==
  CASE word = "museum" -> {"museum"}
    [] word = "city park" -> {"park"}
    [] word = "liquor store" -> {"liquor store"}
    [] word = "convenience store" -> {"convenience", "convenience store"}
    [] OTHER -> {}

\* /\b\w+\s+stores?\b/ or /\bstore\b/ matches the word.
MatchesStore(word) == word \in {"liquor store", "convenience store", "corner store"}

POI_KEYWORDS ==
  {"tourist attraction", "point of interest", "landmark", "museum", "park",
   "historical landmark", "historic landmark", "viewpoint", "monument"}

RETAIL_KEYWORDS ==
  {"convenience", "convenience store", "liquor store", "bottle shop", "wine shop",
   "package store", "grocery", "supermarket", "mini mart", "minimart", "gas station",
   "pharmacy", "drugstore"}

\* The lower-cased words of [category, title].join(" ").
Haystack(place) == {toLowerCase(place.category), toLowerCase(place.title.w)}

isPoiPlace(place) ==
  \E word \in Haystack(place) : KeywordsIn(word) \cap POI_KEYWORDS # {}

isRetailPlace(place) ==
  \E word \in Haystack(place) :
    KeywordsIn(word) \cap RETAIL_KEYWORDS # {} \/ MatchesStore(word)

\* A key that tells upper case from lower case.
placeKeyCaseSensitive(place) == <<place.title, place.address>>

\* `${title}::${address ?? ""}`.toLowerCase()
placeKey(place) == <<lowerText(place.title), lowerText(place.address)>>

\* normalizeZoom with SERPER_MAPS_ZOOM at its default.
normalizeZoom(value) ==
  LET numeric == Number(value)
      zoom == IF numeric.nan THEN SERPER_MAPS_ZOOM ELSE numeric.v
  IN IF zoom < 3 THEN 3 ELSE IF zoom > 21 THEN 21 ELSE zoom

\* value.split(",") after the leading "@", tabulated on the strings of
\* the model.
LlParts(cleaned) ==
  CASE cleaned = "@48.0000,2.0000,16z" -> <<"48.0000", "2.0000", "16z">>
    [] cleaned = "48.85,2.35" -> <<"48.85", "2.35">>
    [] OTHER -> <<cleaned>>

\* The anchor "@lat,lng,zoom" as its three parts; <<>> is null.
normalizeLl(value, latlng, zoom) ==
  LET parts == LlParts(Trim(value.v))
      fromLatLng ==
        IF latlng = <<>> THEN <<>>
        ELSE <<[lat |-> ToString(latlng[1].lat) \o ".0000",
                lng |-> ToString(latlng[1].lng) \o ".0000",
                zoom |-> ToString(zoom) \o "z"]>>
  IN IF value.t = "string"
       THEN IF Trim(value.v) = "" THEN <<>>
            ELSE IF Len(parts) >= 2
              THEN <<[lat |-> parts[1], lng |-> parts[2],
                      zoom |-> IF Len(parts) >= 3 THEN parts[3]
                               ELSE ToString(zoom) \o "z"]>>
            ELSE fromLatLng
     ELSE fromLatLng

\* normalizeInterest: <<>> is null.
normalizeInterest(value, index) ==
  LET field(k) == IF k \in DOMAIN value THEN Trim(value[k]) ELSE ""
      label == field("label")
      queryRaw == IF "query" \in DOMAIN value THEN field("query")
                  ELSE IF "q" \in DOMAIN value THEN field("q") ELSE label
      id == IF field("id") # "" THEN field("id")
            ELSE IF toLowerCase(label) # "" THEN toLowerCase(label)
            ELSE "interest-" \o ToString(index)
  IN IF value.t = "string"
       THEN IF Trim(value.v) = "" THEN <<>>
            ELSE <<[id |-> "interest-" \o ToString(index),
                    label |-> Trim(value.v), query |-> Trim(value.v)]>>
     ELSE IF value.t # "object" THEN <<>>
     ELSE IF queryRaw = "" THEN <<>>
     ELSE <<[id |-> id, label |-> IF label # "" THEN label ELSE queryRaw,
             query |-> queryRaw]>>

rawInterests(body) ==
  IF Get(body, "interests").t = "array" THEN Get(body, "interests").items
  ELSE IF Truthy(Get(body, "interest")) THEN <<Get(body, "interest")>>
  ELSE IF Truthy(Get(body, "q")) THEN <<Get(body, "q")>>
  ELSE <<>>

RECURSIVE normalizeInterests(_, _)
normalizeInterests(raw, index) ==
  IF raw = <<>> THEN <<>>
  ELSE normalizeInterest(Head(raw), index) \o normalizeInterests(Tail(raw), index + 1)

\* What one call of the search service comes to: the fetch rejects, the
\* timer aborts it, the service answers with an error status, or it answers
\* with a payload.
SerperOutcomes == {"neterr", "timeout", "http500", "bars", "malls", "sights"}

Mall(i) == [title |-> Text("Mall", i), category |-> "Shopping mall",
            address |-> Text("Main St", i)]

\* The payloads of the model.  "bars": two bars, a liquor store, a corner
\* store and an item without a title; "malls": thirteen items, the first at
\* the liquor store's address under its name in capitals; "sights": a
\* museum and a cafe, and a park under another key.
SerperPayload(outcome) ==
  CASE outcome = "bars" ->
         [places |-> <<[title |-> Text("Bar", 1), category |-> "Bar",
                        address |-> Text("Main St", 1)],
                       [title |-> Text("Bottle King", 0), category |-> "Liquor Store",
                        address |-> Text("Main St", 7)],
                       [category |-> "Bar", address |-> Text("Main St", 3)],
                       [title |-> Text("Corner Store", 0), type |-> "Bar",
                        location |-> Text("Main St", 9)],
                       [title |-> Text("Bar", 2), category |-> "Bar"]>>]
    [] outcome = "malls" ->
         [places |-> <<[title |-> Text("BOTTLE KING", 0), category |-> "Shopping mall",
                        address |-> Text("MAIN ST", 7)]>>
                       \o [i \in 1..PLACES_LIMIT |-> Mall(i)]]
    [] outcome = "sights" ->
         [places |-> <<[title |-> Text("Museum", 1), category |-> "Museum",
                        address |-> Text("Main St", 4)],
                       [title |-> Text("Cafe", 1), category |-> "Cafe",
                        address |-> Text("Main St", 5)]>>,
          local |-> <<[title |-> Text("City Park", 0), category |-> "Park"]>>]
    [] OTHER -> [places |-> <<>>]

\* The result of fetchSerperPlaces for an outcome of its call.
SerperResult(outcome) ==
  CASE outcome = "nokey" -> [places |-> <<>>, error |-> "SERPER_API_KEY is not configured."]
    [] outcome = "neterr" -> [places |-> <<>>, error |-> "fetch failed"]
    [] outcome = "timeout" -> [places |-> <<>>, error |-> "The operation was aborted."]
    [] outcome = "http500" -> [places |-> <<>>, error |-> "Serper error 500: "]
    [] OTHER -> [places |-> extractPlaces(SerperPayload(outcome)), error |-> ""]

\* A group whose places pass the POI filter whatever the interest.
PlacesGroupOfFiltersAll(interest, result) ==
  [id |-> interest.id, label |-> interest.label, query |-> interest.query,
   places |-> FilterSeq(result.places, [x \in Range(result.places) |-> isPoiPlace(x)]),
   error |-> result.error]

\* The group of one interest, from the result of its call.
PlacesGroupOf(interest, result) ==
  [id |-> interest.id, label |-> interest.label, query |-> interest.query,
   places |-> IF interest.id = "attractions"
                THEN FilterSeq(result.places,
                               [x \in Range(result.places) |-> isPoiPlace(x)])
                ELSE result.places,
   error |-> result.error]

\* The first index of a group with the id, 0 when there is none.
FindGroup(groups, id) ==
  LET S == {i \in 1..Len(groups) : groups[i].id = id}
  IN IF S = {} THEN 0 ELSE CHOOSE i \in S : \A j \in S : i <= j

\* existing.set(key, place) for each place, in order, on a Map given as the
\* sequence of its values; the places of `keep` do not replace a value.  A
\* Map keeps its keys in the order of their first insertion, and set on a
\* key it holds replaces the value in place: the values of `existing` stay
\* where they are, each replaced by the last place under its key, and the
\* places under new keys follow, one per key, in the order of their first
\* occurrence.
MapSetAll(existing, places, keep) ==
  LET Under(key) == {j \in 1..Len(places) : placeKey(places[j]) = key}
      FirstUnder(key) == CHOOSE j \in Under(key) : \A m \in Under(key) : j <= m
      LastUnder(key) == CHOOSE j \in Under(key) : \A m \in Under(key) : m <= j
      Held(key) == \E i \in 1..Len(existing) : placeKey(existing[i]) = key
      IsNewKey(j) == ~Held(placeKey(places[j])) /\ FirstUnder(placeKey(places[j])) = j
      added == SelectSeq([j \in 1..Len(places) |-> j], IsNewKey)
  IN [i \in 1..Len(existing) |->
        IF keep \/ Under(placeKey(existing[i])) = {} THEN existing[i]
        ELSE places[LastUnder(placeKey(existing[i]))]]
     \o [i \in 1..Len(added) |->
          IF keep THEN places[added[i]]
          ELSE places[LastUnder(placeKey(places[added[i]]))]]

\* A reclassification that touches the nightlife group only when there is a
\* shopping group to receive its retail places.
reclassifyRetailNeedsShopping(groups) ==
  LET n == FindGroup(groups, "nightlife")
      s == FindGroup(groups, "shopping")
      retailPlaces == FilterSeq(groups[n].places,
                                [x \in Range(groups[n].places) |-> isRetailPlace(x)])
      others == FilterSeq(groups[n].places,
                          [x \in Range(groups[n].places) |-> ~isRetailPlace(x)])
  IN IF n = 0 \/ s = 0 THEN groups
     ELSE [i \in 1..Len(groups) |->
             IF i = n THEN [groups[i] EXCEPT !.places = others]
             ELSE IF i = s
               THEN [groups[i] EXCEPT
                       !.places = MapSetAll(MapSetAll(<<>>, groups[i].places, FALSE),
                                            retailPlaces, TRUE)]
             ELSE groups[i]]

\* The retail reclassification of registerPlaces.
reclassifyRetail(groups) ==
  LET n == FindGroup(groups, "nightlife")
      s == FindGroup(groups, "shopping")
      retailPlaces == FilterSeq(groups[n].places,
                                [x \in Range(groups[n].places) |-> isRetailPlace(x)])
      others == FilterSeq(groups[n].places,
                          [x \in Range(groups[n].places) |-> ~isRetailPlace(x)])
  IN IF n = 0 THEN groups
     ELSE [i \in 1..Len(groups) |->
             IF i = n THEN [groups[i] EXCEPT !.places = others]
             ELSE IF i = s
               THEN [groups[i] EXCEPT
                       !.places = MapSetAll(MapSetAll(<<>>, groups[i].places, FALSE),
                                            retailPlaces, TRUE)]
             ELSE groups[i]]

\* groups.find((group) => group.error)?.error
firstError(groups) ==
  LET S == {i \in 1..Len(groups) : groups[i].error # ""}
  IN IF S = {} THEN "" ELSE groups[CHOOSE i \in S : \A j \in S : i <= j].error

\* The response of POST /places once every call has settled.
PlacesResponse(interests, results) ==
  LET groups == reclassifyRetail([i \in 1..Len(interests) |->
                                    PlacesGroupOf(interests[i], results[i])])
  IN [status |-> 200, groups |-> groups, error |-> firstError(groups)]

Pending == "pending"

\* POST /places arrives: validation, then one call per interest, all
\* started before any settles (none without the API key).
PostPlaces(body) ==
  /\ request = NoRequest
  /\ request' = [route |-> "/places", body |-> body]
  /\ LET latlng == parseLatLng(body)
         interests == normalizeInterests(rawInterests(body), 0)
         zoom == normalizeZoom(Get(body, "zoom"))
         ll == normalizeLl(Get(body, "ll"), latlng, zoom)
     IN IF ll = <<>> \/ interests = <<>>
          THEN /\ response' = [status |-> 400, groups |-> <<>>, error |-> "Invalid payload"]
               /\ upstream' = <<>>
        ELSE IF ~env.SERPER_API_KEY
          THEN /\ response' = PlacesResponse(interests,
                                             [i \in 1..Len(interests) |-> SerperResult("nokey")])
               /\ upstream' = <<>>
        ELSE /\ upstream' = [i \in 1..Len(interests) |->
                               [to |-> "serper", q |-> interests[i].query, ll |-> ll[1],
                                interest |-> interests[i], outcome |-> Pending]]
             /\ UNCHANGED response
  /\ UNCHANGED <<env, aiService, clientVars>>

\* The call for the i-th interest settles; the handler responds when it was
\* the last one.
SerperSettles(i, outcome) ==
  /\ request.route = "/places" /\ response = NoResponse
  /\ i \in 1..Len(upstream) /\ upstream[i].outcome = Pending
  /\ upstream' = [upstream EXCEPT ![i].outcome = outcome]
  /\ response' =
       IF \A j \in 1..Len(upstream) : j = i \/ upstream[j].outcome # Pending
         THEN PlacesResponse([j \in 1..Len(upstream) |-> upstream[j].interest],
                             [j \in 1..Len(upstream) |->
                                SerperResult(IF j = i THEN outcome ELSE upstream[j].outcome)])
         ELSE NoResponse
  /\ UNCHANGED <<env, aiService, request, clientVars>>

\* --------------------------------------- POST /weather, /ai/point, /ai/city
\* String(value ?? "")
String(value) ==
  CASE value.t = "string" -> value.v
    [] value.t = "number" -> ToString(value.n)
    [] OTHER -> ""

\* POST /weather arrives: validation, then fetchWeather.
PostWeather(body) ==
  /\ request = NoRequest
  /\ request' = [route |-> "/weather", body |-> body]
  /\ IF parseLatLng(body) = <<>>
       THEN /\ response' = [status |-> 400, error |-> "Invalid lat/lng"]
            /\ upstream' = <<>>
     ELSE /\ upstream' = <<[to |-> "open-meteo", latlng |-> parseLatLng(body)[1],
                            outcome |-> Pending]>>
          /\ UNCHANGED response
  /\ UNCHANGED <<env, aiService, clientVars>>

\* fetchWeather settles: it throws unless the service answered OK, and the
\* framework answers 500 for a handler that threw.
OpenMeteoSettles(outcome) ==
  /\ request.route = "/weather" /\ response = NoResponse
  /\ upstream[1].outcome = Pending
  /\ upstream' = [upstream EXCEPT ![1].outcome = outcome]
  /\ response' = IF outcome = "ok" THEN [status |-> 200, error |-> ""]
                 ELSE [status |-> 500, error |-> "Internal Server Error"]
  /\ UNCHANGED <<env, aiService, request, clientVars>>

\* An AiResponse with the summary, answered by c.json (status 200).
AiAnswer(text) ==
  [status |-> 200, error |-> "", summary |-> text, facts |-> JArray(<<>>),
   nearby |-> JArray(<<>>), images |-> JArray(<<>>), sources |-> JArray(<<>>)]

\* A callPerplexity whose errors reach the route: the framework answers 500.
AiFailureThrown(message) == [status |-> 500, error |-> "Internal Server Error"]

\* The catch clause of callPerplexity.
AiFailure(message) == AiAnswer(JStr("AI request failed: " \o message))

NotConfigured == AiAnswer(JStr("AI is not configured yet."))

\* What the chat completions endpoint may answer with status 200: a body
\* whose message content is what PplxMessage declares, a string ("ok"), an
\* array of parts ("parts") or absent ("nocontent"); the JSON text null
\* ("nullbody"); or text that is not JSON ("badjson").  <<>> is null.
PplxBodies == {"ok", "parts", "nocontent", "nullbody"}
PplxData(outcome) ==
  CASE outcome = "ok" -> <<[content |-> JStr("text")]>>
    [] outcome = "parts" ->
         <<[content |-> JArray(<<[t |-> "object", text |-> JStr("te")],
                                 [t |-> "object", text |-> JStr("xt")],
                                 [t |-> "object", image |-> JStr("a.png")]>>)]>>
    [] outcome = "nocontent" -> <<[content |-> JUndef]>>
    [] OTHER -> <<>>

\* The message of the error a failed call rejects with.
PplxError(outcome) ==
  CASE outcome = "http401" -> "AI error 401"
    [] outcome = "http500" -> "AI error 500"
    [] outcome = "badjson" -> "Unexpected token < in JSON"
    [] outcome = "neterr" -> "fetch failed"
    [] outcome = "aborted" -> "socket connection was aborted"
    [] outcome = "timeout" -> "The operation was aborted."
    [] OTHER -> outcome

\* extractTextContent of services/ai.ts: the string, or the text parts of an
\* array joined, or "".
RECURSIVE JoinTextParts(_)
JoinTextParts(parts) ==
  IF parts = <<>> THEN ""
  ELSE (IF "text" \in DOMAIN Head(parts) /\ Head(parts).text.t = "string"
          THEN Head(parts).text.v ELSE "") \o JoinTextParts(Tail(parts))

extractTextContent(input) ==
  CASE input.t = "string" -> input.v
    [] input.t = "array" -> JoinTextParts(input.items)
    [] OTHER -> ""

\* callPerplexity of services/ai.ts from the data of the client on: reading
\* a field of null throws, and the catch clause answers.
ClientAnswer(data) ==
  IF data = <<>> THEN AiFailure("null is not an object")
  ELSE LET rawText == IF extractTextContent(data[1].content) # ""
                        THEN extractTextContent(data[1].content)
                        ELSE "No AI response available."
       IN AiAnswer(JStr(rawText))

\* The module that calls fetch itself, from the data of requestOnce on: null
\* data is taken for a timeout, a content that is an array has no
\* replace() for stripThinkContent, and the catch clause answers.
FetchAnswer(data) ==
  IF data = <<>> THEN AiFailure("AI request timed out after 25000ms")
  ELSE LET content == data[1].content
       IN CASE content.t = "undefined" -> AiAnswer(JStr("No AI response available."))
            [] content.t = "string" -> AiAnswer(content)
            [] content.t = "array" -> AiFailure("input.replace is not a function")

\* callPerplexity starts: a placeholder answer without the API key, a call
\* of the chat completions client otherwise.
callPerplexity(prompt) ==
  /\ IF ~env.PERPLEXITY_API_KEY
       THEN /\ response' = NotConfigured
            /\ upstream' = <<>>
       ELSE /\ upstream' = <<[to |-> "perplexity", prompt |-> prompt, outcome |-> Pending]>>
            /\ UNCHANGED response
  /\ UNCHANGED aiService

\* callPerplexity of the module that calls fetch itself: without the API key
\* it answers before any timer exists; otherwise it creates the controller,
\* arms the timer and enters the loop, whose first attempt calls fetch.
callPerplexityFetch(prompt) ==
  IF ~env.PERPLEXITY_API_KEY
    THEN /\ response' = NotConfigured
         /\ upstream' = <<>>
         /\ UNCHANGED aiService
  ELSE /\ upstream' = <<[to |-> "perplexity", prompt |-> prompt, outcome |-> Pending]>>
       /\ aiService' = [aiService EXCEPT !.timer = "armed"]
       /\ UNCHANGED response

\* enrichPoint and enrichCity call the callPerplexity of their module.
enrich(prompt) ==
  IF aiService.module = "fetch" THEN callPerplexityFetch(prompt) ELSE callPerplexity(prompt)

PostAiPoint(body) ==
  /\ request = NoRequest
  /\ request' = [route |-> "/ai/point", body |-> body]
  /\ LET latlng == parseLatLng(body)
         bestLabel == Trim(String(Get(body, "bestLabel")))
     IN IF latlng = <<>>
          THEN /\ response' = [status |-> 400, error |-> "Invalid lat/lng"]
               /\ upstream' = <<>>
               /\ UNCHANGED aiService
        ELSE IF bestLabel = ""
          THEN /\ response' = [status |-> 400, error |-> "Missing bestLabel"]
               /\ upstream' = <<>>
               /\ UNCHANGED aiService
        ELSE enrich([placeName |-> bestLabel, lat |-> latlng[1].lat,
                     lng |-> latlng[1].lng])
  /\ UNCHANGED <<env, clientVars>>

PostAiCity(body) ==
  /\ request = NoRequest
  /\ request' = [route |-> "/ai/city", body |-> body]
  /\ LET name == Trim(String(Get(body, "name")))
         cc == Trim(String(Get(body, "cc")))
         latlng == parseLatLng(body)
     IN IF body.t # "object" \/ name = "" \/ cc = "" \/ latlng = <<>>
          THEN /\ response' = [status |-> 400, error |-> "Invalid payload"]
               /\ upstream' = <<>>
               /\ UNCHANGED aiService
        ELSE enrich([placeName |-> name \o ", " \o cc, lat |-> latlng[1].lat,
                     lng |-> latlng[1].lng])
  /\ UNCHANGED <<env, clientVars>>

\* The failures the chat completions client takes for transient.
Transient(outcome) == outcome \in {"http500", "neterr", "timeout"}

\* The call of the chat completions client settles.  The client was built
\* with maxRetries: PPLX_MAX_RETRIES and sends the request again after a
\* failure it takes for transient (a 500, a connection error, its timeout),
\* not after a 401 or a body it cannot parse.
PerplexitySettles(outcome) ==
  /\ request.route \in {"/ai/point", "/ai/city"} /\ response = NoResponse
  /\ aiService.module = "client"
  /\ upstream # <<>> /\ upstream[Len(upstream)].outcome = Pending
  /\ LET settled == [upstream EXCEPT ![Len(upstream)].outcome = outcome]
     IN IF Transient(outcome) /\ Len(upstream) <= PPLX_MAX_RETRIES
          THEN /\ upstream' = Append(settled, [upstream[1] EXCEPT !.outcome = Pending])
               /\ UNCHANGED response
        ELSE /\ upstream' = settled
             /\ response' = IF outcome \in PplxBodies THEN ClientAnswer(PplxData(outcome))
                            ELSE AiFailure(PplxError(outcome))
  /\ UNCHANGED <<env, aiService, request, clientVars>>

\* A loop that takes every error for an abort.
isAbortWhateverTheError(outcome) == TRUE

\* error.name === "AbortError" || error.message.toLowerCase().includes("aborted")
isAbort(outcome) == outcome \in {"timeout", "aborted"}

\* How the loop of the module that calls fetch goes on after the attempt
\* `attempt` failed with the error of `outcome` while the signal was
\* `aborted`: it rethrows (the catch clause answers and the finally clause
\* clears the timer) or makes the next attempt, whose fetch rejects at once,
\* without a request, when the signal is aborted already.
RECURSIVE AfterFailure(_, _, _, _)
AfterFailure(calls, attempt, outcome, aborted) ==
  IF ~isAbort(outcome) \/ attempt = PPLX_MAX_RETRIES
    THEN [calls |-> calls, response |-> AiFailure(PplxError(outcome)), timer |-> "cleared"]
  ELSE IF aborted
    THEN AfterFailure(Append(calls, [calls[1] EXCEPT !.outcome = "notsent"]),
                      attempt + 1, "timeout", aborted)
  ELSE [calls |-> Append(calls, [calls[1] EXCEPT !.outcome = Pending]),
        response |-> NoResponse, timer |-> "armed"]

\* The fetch of requestOnce settles, with a response and its body or with an
\* error that is not the timer's.
FetchSettles(outcome) ==
  /\ request.route \in {"/ai/point", "/ai/city"} /\ response = NoResponse
  /\ aiService.module = "fetch"
  /\ upstream # <<>> /\ upstream[Len(upstream)].outcome = Pending
  /\ LET settled == [upstream EXCEPT ![Len(upstream)].outcome = outcome]
         next == IF outcome \in PplxBodies
                   THEN [calls |-> settled, response |-> FetchAnswer(PplxData(outcome)),
                         timer |-> "cleared"]
                   ELSE AfterFailure(settled, Len(upstream) - 1, outcome, FALSE)
     IN /\ upstream' = next.calls
        /\ response' = next.response
        /\ aiService' = [aiService EXCEPT !.timer = next.timer]
  /\ UNCHANGED <<env, request, clientVars>>

\* PPLX_TIMEOUT_MS after the call began the timer aborts the controller; the
\* fetch in flight (or the read of its body) rejects with an AbortError.
TimerFires ==
  /\ request.route \in {"/ai/point", "/ai/city"} /\ response = NoResponse
  /\ aiService.module = "fetch" /\ aiService.timer = "armed"
  /\ upstream # <<>> /\ upstream[Len(upstream)].outcome = Pending
  /\ LET settled == [upstream EXCEPT ![Len(upstream)].outcome = "timeout"]
         next == AfterFailure(settled, Len(upstream) - 1, "timeout", TRUE)
     IN /\ upstream' = next.calls
        /\ response' = next.response
        /\ aiService' = [aiService EXCEPT !.timer = next.timer]
  /\ UNCHANGED <<env, request, clientVars>>

\* ---------------------------------------------------------------- GET /image
\* A host name with the octets of its dotted-decimal form, if it has one.
Host(text, octets) == [text |-> text, octets |-> octets]

\* decodeURIComponent and new URL, tabulated on the query values of the
\* model: <<>> when the URL constructor throws.  The parser lower-cases the
\* host, rewrites a numeric host as dotted decimal and keeps a trailing dot.
ParseUrl(raw) ==
  CASE raw = "https://example.com/a.png" ->
         <<[protocol |-> "https:", hostname |-> Host("example.com", <<>>)]>>
    [] raw = "http%3A%2F%2Fexample.com%2Fa.png" ->
         <<[protocol |-> "http:", hostname |-> Host("example.com", <<>>)]>>
    [] raw = "ftp://example.com/a.png" ->
         <<[protocol |-> "ftp:", hostname |-> Host("example.com", <<>>)]>>
    [] raw = "file:///etc/passwd" ->
         <<[protocol |-> "file:", hostname |-> Host("", <<>>)]>>
    [] raw = "http://LOCALHOST/a.png" ->
         <<[protocol |-> "http:", hostname |-> Host("localhost", <<>>)]>>
    [] raw = "http://localhost./a.png" ->
         <<[protocol |-> "http:", hostname |-> Host("localhost.", <<>>)]>>
    [] raw = "http://printer.local/a.png" ->
         <<[protocol |-> "http:", hostname |-> Host("printer.local", <<>>)]>>
    [] raw = "http://[::1]/a.png" ->
         <<[protocol |-> "http:", hostname |-> Host("[::1]", <<>>)]>>
    [] raw = "http://127.0.0.1/a.png" ->
         <<[protocol |-> "http:", hostname |-> Host("127.0.0.1", <<127, 0, 0, 1>>)]>>
    [] raw = "http://2130706433/a.png" ->
         <<[protocol |-> "http:", hostname |-> Host("127.0.0.1", <<127, 0, 0, 1>>)]>>
    [] raw = "http://10.1.2.3/a.png" ->
         <<[protocol |-> "http:", hostname |-> Host("10.1.2.3", <<10, 1, 2, 3>>)]>>
    [] raw = "http://172.16.0.1/a.png" ->
         <<[protocol |-> "http:", hostname |-> Host("172.16.0.1", <<172, 16, 0, 1>>)]>>
    [] raw = "http://172.32.0.1/a.png" ->
         <<[protocol |-> "http:", hostname |-> Host("172.32.0.1", <<172, 32, 0, 1>>)]>>
    [] raw = "http://192.168.1.1/a.png" ->
         <<[protocol |-> "http:", hostname |-> Host("192.168.1.1", <<192, 168, 1, 1>>)]>>
    [] raw = "http://169.254.169.254/a.png" ->
         <<[protocol |-> "http:", hostname |-> Host("169.254.169.254", <<169, 254, 169, 254>>)]>>
    [] raw = "http://8.8.8.8/a.png" ->
         <<[protocol |-> "http:", hostname |-> Host("8.8.8.8", <<8, 8, 8, 8>>)]>>
    [] OTHER -> <<>>

ImageUrls ==
  {"", "  ", "not a url", "https://example.com/a.png", "http%3A%2F%2Fexample.com%2Fa.png",
   "ftp://example.com/a.png", "file:///etc/passwd", "http://LOCALHOST/a.png",
   "http://localhost./a.png", "http://printer.local/a.png", "http://[::1]/a.png",
   "http://127.0.0.1/a.png", "http://2130706433/a.png", "http://10.1.2.3/a.png",
   "http://172.16.0.1/a.png", "http://172.32.0.1/a.png", "http://192.168.1.1/a.png",
   "http://169.254.169.254/a.png", "http://8.8.8.8/a.png"}

isPrivateHostname(hostname) ==
  LET lower == toLowerCase(hostname.text)
      parts == hostname.octets
  IN IF lower = "localhost" \/ lower \in {"printer.local"} THEN TRUE
     ELSE IF lower = "127.0.0.1" \/ lower = "::1" THEN TRUE
     ELSE IF lower \in {"[::1]"} THEN TRUE
     ELSE IF parts = <<>> THEN FALSE
     ELSE IF \E i \in 1..4 : parts[i] < 0 \/ parts[i] > 255 THEN TRUE
     ELSE \/ parts[1] = 10
          \/ parts[1] = 127
          \/ (parts[1] = 169 /\ parts[2] = 254)
          \/ (parts[1] = 192 /\ parts[2] = 168)
          \/ (parts[1] = 172 /\ parts[2] >= 16 /\ parts[2] <= 31)

\* parseImageUrl: <<>> is null.
parseImageUrl(raw) ==
  IF raw = "" THEN <<>>
  ELSE IF Trim(raw) = "" THEN <<>>
  ELSE IF ParseUrl(Trim(raw)) = <<>> THEN <<>>
  ELSE IF ParseUrl(Trim(raw))[1].protocol \notin {"http:", "https:"} THEN <<>>
  ELSE IF isPrivateHostname(ParseUrl(Trim(raw))[1].hostname) THEN <<>>
  ELSE ParseUrl(Trim(raw))

\* GET /image?url=raw arrives.
GetImage(raw) ==
  /\ request = NoRequest
  /\ request' = [route |-> "/image", url |-> raw]
  /\ IF parseImageUrl(raw) = <<>>
       THEN /\ response' = [status |-> 400, error |-> "Invalid image url."]
            /\ upstream' = <<>>
     ELSE /\ upstream' = <<[to |-> "image", url |-> parseImageUrl(raw)[1],
                            outcome |-> Pending]>>
          /\ UNCHANGED response
  /\ UNCHANGED <<env, aiService, clientVars>>

\* Where the server of an image may redirect the fetch to.
RedirectTargets ==
  {[protocol |-> "http:", hostname |-> Host("127.0.0.1", <<127, 0, 0, 1>>)],
   [protocol |-> "https:", hostname |-> Host("example.com", <<>>)]}

\* The fetch was answered with a redirect: fetch (redirect mode "follow")
\* requests the new location.
ImageFetchRedirected(target) ==
  /\ request.route = "/image" /\ response = NoResponse
  /\ Len(upstream) = 1 /\ upstream[1].outcome = Pending
  /\ upstream' = <<[upstream[1] EXCEPT !.outcome = "redirected"],
                   [to |-> "image", url |-> target, outcome |-> Pending]>>
  /\ UNCHANGED <<env, aiService, request, response, clientVars>>

\* The fetch settles: it rejects, the timer aborts it, or headers arrive.
ImageFetchSettles(outcome) ==
  /\ request.route = "/image" /\ response = NoResponse
  /\ upstream[Len(upstream)].outcome = Pending
  /\ upstream' = [upstream EXCEPT ![Len(upstream)].outcome = outcome]
  /\ response' =
       CASE outcome \in {"neterr", "timeout", "http404"} ->
              [status |-> 502, error |-> "Image fetch failed."]
         [] outcome = "text/html" ->
              [status |-> 415, error |-> "Unsupported image response."]
         [] OTHER -> [status |-> 200, error |-> ""]
  /\ UNCHANGED <<env, aiService, request, clientVars>>

\* ------------------------------------------------------------- API requests
InterestRecords ==
  {[t |-> "object", id |-> "attractions", label |-> "Attractions",
    query |-> "top tourist attractions"],
   [t |-> "object", id |-> "nightlife", label |-> "Nightlife", query |-> "top bars"],
   [t |-> "object", id |-> "shopping", label |-> "Shopping", query |-> "top shopping malls"],
   [t |-> "object", id |-> "food", label |-> "Food", query |-> "top rated restaurants"]}

\* The bodies runPlacesSearch sends: a coordinate, its anchor, and up to
\* MaxInterests interests, each named once.
SearchBodies ==
  {[t |-> "object", lat |-> JNum(48), lng |-> JNum(2), zoom |-> JNum(16),
    ll |-> JStr("@48.0000,2.0000,16z"), interests |-> JArray(s)] :
     s \in {x \in SeqsUpTo(InterestRecords, MaxInterests) :
              x # <<>> /\ \A i, j \in 1..Len(x) : i < j => x[i].id # x[j].id}}

\* What a body may hold for a coordinate.
Latitudes == {JNum(48), JNum(91), JStr("48"), JStr("abc"), JStr(""), JNull, JUndef}
Longitudes == {JNum(2), JNum(181), JUndef}

\* Bodies of any caller of POST /places.
ProbeBodies ==
  {[t |-> "object", lat |-> lat, lng |-> lng, ll |-> ll, interests |-> interests] :
     lat \in Latitudes, lng \in Longitudes,
     ll \in {JUndef, JStr(""), JStr("abc"), JStr("48.85,2.35")},
     interests \in {JUndef, JArray(<<>>), JArray(<<JStr("  "), JNull>>),
                    JArray(<<JStr("bars")>>)}}
    \cup {[t |-> "object", lat |-> JNum(48), lng |-> JNum(2), q |-> JStr("bars")], JNull}

CoordinateBodies ==
  {[t |-> "object", lat |-> lat, lng |-> lng] : lat \in Latitudes, lng \in Longitudes}
    \cup {JNull}

PointBodies ==
  {[t |-> "object", lat |-> lat, lng |-> JNum(2), bestLabel |-> label] :
     lat \in Latitudes, label \in {JUndef, JStr("  "), JStr("Paris")}}
    \cup {JNull}

CityBodies ==
  {[t |-> "object", lat |-> lat, lng |-> JNum(2), name |-> name, cc |-> cc] :
     lat \in {JNum(48), JNum(91), JNull, JUndef},
     name \in {JUndef, JStr("Paris")}, cc \in {JUndef, JStr("  "), JStr("FR")}}
    \cup {JNull}

\* process.env of the deployments of the model.
Environments ==
  {Configured, [Configured EXCEPT !.SERPER_API_KEY = FALSE],
   [Configured EXCEPT !.PERPLEXITY_API_KEY = FALSE]}

\* The API server handles one request, from its arrival to its response.
InitApi ==
  \E e \in Environments :
    /\ AppMounted([bookmarks |-> <<>>, history |-> <<>>], "none", FALSE, 0)
    /\ ApiIdle(e)

NextApi ==
  \/ \E body \in SearchBodies \cup ProbeBodies : PostPlaces(body)
  \/ \E i \in 1..Len(upstream) : \E outcome \in SerperOutcomes : SerperSettles(i, outcome)
  \/ \E body \in CoordinateBodies : PostWeather(body)
  \/ \E outcome \in {"ok", "http500", "neterr"} : OpenMeteoSettles(outcome)
  \/ \E body \in PointBodies : PostAiPoint(body)
  \/ \E body \in CityBodies : PostAiCity(body)
  \/ \E outcome \in {"ok", "http401", "http500"} : PerplexitySettles(outcome)
  \/ \E raw \in ImageUrls : GetImage(raw)
  \/ \E target \in RedirectTargets : ImageFetchRedirected(target)
  \/ \E outcome \in {"neterr", "timeout", "http404", "text/html", "image/png"} :
       ImageFetchSettles(outcome)

SpecApi == InitApi /\ [][NextApi]_vars

\* The AI routes with either module linked.
PplxOutcomes == PplxBodies \cup {"badjson", "http401", "http500", "neterr"}

InitAi ==
  \E e \in {Configured, [Configured EXCEPT !.PERPLEXITY_API_KEY = FALSE]} :
    \E module \in {"client", "fetch"} :
      /\ AppMounted([bookmarks |-> <<>>, history |-> <<>>], "none", FALSE, 0)
      /\ env = e
      /\ request = NoRequest
      /\ upstream = <<>>
      /\ response = NoResponse
      /\ aiService = [module |-> module, timer |-> "none"]

NextAi ==
  \/ \E body \in PointBodies : PostAiPoint(body)
  \/ \E body \in CityBodies : PostAiCity(body)
  \/ \E outcome \in PplxOutcomes \cup {"timeout"} : PerplexitySettles(outcome)
  \/ \E outcome \in PplxOutcomes \cup {"aborted"} : FetchSettles(outcome)
  \/ TimerFires

SpecAi == InitAi /\ [][NextAi]_vars

\* -------------------------------------------------------------- properties
\* The operations a cache-miss selection starts.
IsSelectionOp(op) ==
  op.kind \in {"weather", "geo", "ai"} \/ (op.kind = "places" /\ ~op.append)

\* This step runs the continuation of op: the task of a settled promise, or
\* the microtask of a promise its controller rejected.
Settles(op) ==
  \/ op \in inflight /\ op \notin inflight' /\ userActions' = userActions
  \/ op \in microtasks /\ op \notin microtasks'

\* The view shows a record replayed from the store.
IsReplay == selKind \in {"hit", "saved"}

\* C1: when the latest selection is a cache-miss map click B that superseded a
\* cache-miss click A, then in every interleaving of the arrivals the view
\* holds only data of B's operations: weather, summary, images, sources and
\* places groups carry B's token, the place name is B's label (or the
\* fallback), and no arrival of A ends B's places search.
C1_ViewHoldsOnlyCurrentSelection ==
  selKind = "miss" =>
    /\ coords # <<>>
    /\ weather.k = "weather" =>
         (weather.rid = requestIdRef /\ weather.lat = coords[1].lat)
    /\ summary.text # "" => summary.rid = requestIdRef
    /\ \A i \in 1..Len(images) : images[i] \div 10 = requestIdRef
    /\ \A i \in 1..Len(sources) : sources[i] \div 10 = requestIdRef
    /\ \A i \in 1..Len(placesGroups) : placesGroups[i].sel = requestIdRef
    /\ placeName \in {"", FALLBACK_LABEL, GeocodedName(coords[1].lat)}
    /\ (\E op \in inflight : op.kind = "places" /\ ~op.append /\ op.sel = requestIdRef)
         => (placesStatus = "loading" /\ placesGroups = <<>>)

\* Two cache-miss clicks, the first never Ready (history holds the second
\* alone), every operation settled and the view complete with B's data.
C1_Witness ==
  /\ selKind = "miss" /\ selections = 2 /\ requestIdRef = 2
  /\ inflight = {} /\ microtasks = {}
  /\ status = "ready" /\ summary.rid = 2
  /\ weather.k = "weather" /\ weather.rid = 2
  /\ placesGroups # <<>>
  /\ placeName = GeocodedName(coords[1].lat)
  /\ Len(history) = 1 /\ history[1].lat = coords[1].lat

\* C2: while the latest selection is a cache replay (a map click that hit the
\* cache, or a saved place picked from a list), the settlement of an operation
\* of the older selection changes no field of the view.
C2_ReplayViewKept ==
  [][\A op \in inflight \cup microtasks :
       (IsReplay /\ IsSelectionOp(op) /\ Settles(op)) => UNCHANGED viewVars]_vars

\* C3: neither token ever decreases, and every logical selection increments
\* both tokens and leaves none of the previous selection's operations in
\* flight.
C3_SelectionBumpsTokensAndCancels ==
  [][/\ requestIdRef' >= requestIdRef
     /\ placesRequestIdRef' >= placesRequestIdRef
     /\ selections' # selections =>
          /\ requestIdRef' > requestIdRef
          /\ placesRequestIdRef' > placesRequestIdRef
          /\ \A op \in inflight :
               op.kind \in {"weather", "geo", "ai", "places"} => op \notin inflight'
    ]_vars

\* C4: the continuation of a standalone weather refresh started for a
\* coordinate A, run after a different coordinate B was selected (its
\* selection token is no longer current), writes neither the weather fields of
\* the view nor the place store.
C4_StaleRefreshIsDiscarded ==
  [][\A op \in inflight :
       (/\ op.kind = "refresh" /\ Settles(op)
        /\ op.sel # requestIdRef /\ coords # <<LatLng(op.lat)>>)
         => UNCHANGED <<weather, weatherStatus, weatherError, history, bookmarks>>
    ]_vars

\* C5: a map click that hits the cache starts no network operation, sets the
\* status Ready and every view field to the cached record's field, and leaves
\* the cached record (with a fresh savedAt) at index 0 of the history.
C5_CacheHitReplaysRecord ==
  [][(selKind' = "hit" /\ selections' # selections) =>
       LET lat == coords'[1].lat
           cached == findCachedPlace(bookmarks, history, lat, 0)[1]
       IN /\ inflight' \subseteq inflight
          /\ status' = "ready"
          /\ placeName' = cached.title
          /\ summary' = cached.summary
          /\ images' = cached.images
          /\ sources' = cached.sources
          /\ placesGroups' = cached.placesGroups
          /\ placesStatus' = cached.placesStatus
          /\ placesError' = cached.placesError
          /\ weather' = cached.weather
          /\ weatherStatus' = cached.weatherStatus
          /\ weatherError' = cached.weatherError
          /\ history' # <<>>
          /\ history'[1] = [cached EXCEPT !.savedAt = now]
    ]_vars

\* A click 667 m from a stored record replayed it: the view shows the record
\* at the clicked coordinate and the record heads the history, re-stamped.
C5_Witness ==
  /\ selKind = "hit" /\ inflight = {} /\ microtasks = {}
  /\ coords = <<LatLng(600)>>
  /\ status = "ready" /\ placesStatus = "ready" /\ placesGroups # <<>>
  /\ history # <<>> /\ history[1].lat = 0 /\ history[1].savedAt > 0
  /\ summary = history[1].summary

\* C6: an AI-summary operation is started only by the settlement of its
\* selection's reverse-geocode, with a non-empty label, for the current token,
\* and never for a selection that a later selection has superseded.
C6_AiOnlyForCurrentLabelledSelection ==
  [][\A op \in inflight' \ inflight :
       op.kind = "ai" =>
         /\ op.label # ""
         /\ \E g \in inflight \cup microtasks :
              g.kind = "geo" /\ g.rid = op.rid /\ Settles(g)
         /\ op.rid = requestIdRef'
         /\ selKind = "miss"
    ]_vars

\* C7: a cache-miss selection whose reverse-geocode and AI-summary operations
\* settle reaches status Ready unless it is superseded.
C7_SelectionReachesReady ==
  \A t \in 1..(MaxUserActions + 1) :
    (selKind = "miss" /\ requestIdRef = t /\ status = "loading")
      ~> (status = "ready" \/ requestIdRef # t \/ selKind # "miss")

\* Reverse-geocode failed, the AI summary was requested with the fallback
\* label and failed too: the status is Ready with the AI error set.
C7_Witness ==
  /\ selKind = "miss" /\ status = "ready"
  /\ geoStatus = "error" /\ placeName = FALLBACK_LABEL
  /\ aiError # "" /\ summary = NoSummary

\* C8: the continuation of a cancelled operation sets no status field to
\* error and sets no error message.
C8_CancellationNotAnError ==
  [][\A op \in microtasks :
       op \notin microtasks' =>
         /\ weatherStatus' = "error" => weatherStatus = "error"
         /\ placesStatus' = "error" => placesStatus = "error"
         /\ geoStatus' = "error" => geoStatus = "error"
         /\ weatherError' # "" => weatherError' = weatherError
         /\ placesError' # "" => placesError' = placesError
         /\ aiError' # "" => aiError' = aiError
    ]_vars

\* C9: the settlement of a selection's weather operation changes only weather,
\* weatherStatus and weatherError, the settlement of a places search only
\* placesGroups, placesStatus and placesError, and the settlement of the
\* current selection's AI summary makes the status Ready whatever became of
\* the other two.
C9_WeatherAndPlacesAreIndependent ==
  [][\A op \in inflight \cup microtasks :
       Settles(op) =>
         /\ op.kind = "weather" =>
              UNCHANGED <<status, coords, summary, images, sources, placesGroups,
                          placesStatus, placesError, selectedInterests,
                          exploreModalOpen, isCachedView, placeName, geoStatus,
                          aiError>>
         /\ op.kind = "places" =>
              UNCHANGED <<status, coords, summary, images, sources, weather,
                          weatherStatus, weatherError, selectedInterests,
                          exploreModalOpen, isCachedView, placeName, geoStatus,
                          aiError>>
         /\ (op.kind = "ai" /\ op \in inflight /\ IsCurrentRequest(op.rid)) =>
              status' = "ready"
    ]_vars

\* Weather and places both failed and the selection is Ready with its summary.
C9_Witness ==
  /\ selKind = "miss" /\ status = "ready" /\ summary.text # ""
  /\ weatherStatus = "error" /\ weatherError # ""
  /\ placesStatus = "error" /\ placesError # ""
  /\ geoStatus = "ready"

\* C10: no arrival of a network result while the status is Loading adds or
\* modifies a history or bookmark record.
C10_NoUpsertWhileLoading ==
  [][(userActions' = userActions /\ status = "loading" /\ status' = "loading")
       => UNCHANGED <<history, bookmarks>>]_vars

\* A refinement search: a places search that merges into the current groups.
IsRefinementOp(op) == op.kind = "places" /\ op.append

\* C11: a step that starts a refinement search increments the places token
\* by one and leaves the selection token unchanged; every weather,
\* reverse-geocode and AI-summary operation in flight stays in flight and
\* none is cancelled; and while a refinement search is in flight, an
\* arriving result of the current selection's weather, geocode or AI
\* operation is still applied to the view.
C11_RefinementBumpsOnlyPlacesToken ==
  [][/\ (\E op \in inflight' \ inflight : IsRefinementOp(op)) =>
          /\ placesRequestIdRef' = placesRequestIdRef + 1
          /\ requestIdRef' = requestIdRef
          /\ \A op \in inflight : op.kind \in {"weather", "geo", "ai"} =>
                op \in inflight' /\ op \notin microtasks'
     /\ \A op \in inflight :
          (/\ \E r \in inflight : IsRefinementOp(r)
           /\ op \notin inflight' /\ userActions' = userActions
           /\ op.rid = requestIdRef /\ selKind = "miss") =>
          /\ op.kind = "weather" =>
                /\ weatherStatus' \in {"ready", "error"}
                /\ weatherStatus' = "ready" => weather' = WeatherData(op)
          /\ op.kind = "geo" => geoStatus' \in {"ready", "error"} /\ placeName' # ""
          /\ op.kind = "ai" => status' = "ready"
    ]_vars

\* A refinement search was started while the selection's weather operation
\* is still in flight.
C11_Witness ==
  /\ \E r \in inflight : IsRefinementOp(r) /\ r.rid = placesRequestIdRef
  /\ \E op \in inflight : op.kind = "weather" /\ op.rid = requestIdRef
  /\ weatherStatus = "loading"
  /\ requestIdRef = 1

GroupIds(groups) == {groups[i].id : i \in 1..Len(groups)}

NoDuplicateIds(groups) ==
  \A i, j \in 1..Len(groups) : groups[i].id = groups[j].id => i = j

\* C13: in every reachable state neither the view's placesGroups nor the
\* placesGroups of a record of history or bookmarks holds two groups with
\* the same id.
C13_GroupIdsAreUnique ==
  /\ NoDuplicateIds(placesGroups)
  /\ \A r \in Range(history) \cup Range(bookmarks) :
       NoDuplicateIds(Field(r, "placesGroups", <<>>))

\* A refinement was merged into a bookmarked selection: the view, the
\* history record and the bookmark hold the default group and the refined
\* group.
C13_Witness ==
  /\ Len(placesGroups) = 2 /\ placesGroups[2].id \in Range(OPTIONAL_INTERESTS)
  /\ status = "ready" /\ placesStatus = "ready"
  /\ Len(history) = 1 /\ history[1].placesGroups = placesGroups
  /\ Len(bookmarks) = 1 /\ bookmarks[1].placesGroups = placesGroups

\* The record rec holds every field of entry with entry's value.
Carries(rec, entry) == \A k \in DOMAIN entry : k \in DOMAIN rec /\ rec[k] = entry[k]

\* C14: starting from an empty history, history never holds more than 40
\* records, and after every task that upserts (the replay of a stored
\* record, the snapshot of a Ready view, a weather refresh) the record at
\* index 0 carries the field values of the entry upserted last, and no other
\* record is equivalent to it.
C14_HistoryCappedNewestFirst ==
  [][/\ Len(history') <= HISTORY_LIMIT
     /\ history' # history =>
          /\ history' # <<>>
          /\ \A i \in 2..Len(history') : ~isSamePlaceForLists(history'[i], history'[1])
          /\ \/ /\ isCachedView' /\ userActions' # userActions
                /\ findCachedPlace(bookmarks, history, coords'[1].lat, 0) # <<>>
                /\ Carries(history'[1],
                           [findCachedPlace(bookmarks, history, coords'[1].lat, 0)[1]
                              EXCEPT !.savedAt = now])
             \/ /\ ~isCachedView' /\ status' = "ready"
                /\ Carries(history'[1], [buildSavedPlace(View, 0)' EXCEPT !.savedAt = now])
             \/ /\ status' # "ready" \/ isCachedView'
                /\ \E op \in inflight \ inflight' :
                     op.kind = "refresh" /\ Carries(history'[1], refreshEntry(op, now))
    ]_vars

\* The history is full and the forty-first place was upserted: it is at
\* index 0 and the first place of the session was evicted.
C14_Witness ==
  /\ Len(history) = HISTORY_LIMIT
  /\ history[1].lat = (HISTORY_LIMIT + 1) * 20000
  /\ history[HISTORY_LIMIT].lat = 2 * 20000
  /\ status = "ready" /\ coords = <<LatLng((HISTORY_LIMIT + 1) * 20000)>>

NoEquivalentPair(list) ==
  \A i, j \in 1..Len(list) : i < j => ~isSamePlaceForLists(list[i], list[j])

\* C15: after every task and the effects it triggers, neither bookmarks nor
\* history holds two distinct records that are isSamePlaceForLists-equivalent,
\* also after an entry equivalent to two bookmarks that are not equivalent to
\* each other was merged into the bookmarks.
C15_ListsHoldNoEquivalentPair ==
  NoEquivalentPair(bookmarks) /\ NoEquivalentPair(history)

\* A weather refresh half way between the two stored places merged its entry
\* into both bookmarks; the dedupe effect left one of them.
C15_Witness ==
  /\ coords = <<LatLng(600)>> /\ weather.k = "refresh"
  /\ Len(bookmarks) = 1 /\ bookmarks[1].lat = 600 /\ bookmarks[1].weather = weather
  /\ Len(history) = 1 /\ history[1].lat = 600

\* out is input restricted, in order, to the items no earlier kept item is
\* isSamePlaceForLists-equivalent to.
DedupeKeeps(input, out) ==
  \E K \in SUBSET (1..Len(input)) :
    /\ \A i \in 1..Len(input) :
         i \in K <=> \A j \in K : j < i => ~isSamePlaceForLists(input[j], input[i])
    /\ Len(out) = Cardinality(K)
    /\ \A i \in K : out[Cardinality({j \in K : j <= i})] = input[i]

\* C16: the list the App mounts with is the stored list restricted, in
\* order, to the items no earlier kept item is equivalent to; its first
\* element is the stored list's first; and the dedupe effect of the first
\* render, which applies dedupe to that list again, leaves it as it is.
C16_DedupeFirstWinsIdempotent ==
  [][(userActions = 0 /\ userActions' = 1) =>
       /\ DedupeKeeps(loadStoredPlaces(storage.history), history)
       /\ DedupeKeeps(loadStoredPlaces(storage.bookmarks), bookmarks)
       /\ loadStoredPlaces(storage.history) # <<>> =>
            history # <<>> /\ history[1] = loadStoredPlaces(storage.history)[1]
       /\ history' = history /\ bookmarks' = bookmarks
       /\ storage' = [bookmarks |-> bookmarks, history |-> history]
    ]_vars

\* Three stored places of which the second is equivalent to both others,
\* which are not equivalent to each other: the second was dropped and the
\* third kept, and the dedupe effect has run.
C16_Witness ==
  /\ userActions = 1
  /\ history = <<StoredPlace(0, "Paris, France"), StoredPlace(930, "Lyon, France")>>
  /\ storage.history = history
  /\ isSamePlaceForLists(StoredPlace(45, "Open ocean"), history[1])
  /\ isSamePlaceForLists(StoredPlace(45, "Open ocean"), history[2])

\* C17: every record held in bookmarks or history is
\* isSamePlaceForLists-equivalent to itself, the records loaded from
\* localStorage included.
C17_SameForListsReflexive ==
  \A r \in Range(history) \cup Range(bookmarks) : isSamePlaceForLists(r, r)

\* C18: for stored records a, b with finite coordinates,
\* isSamePlaceForCache(a, b) holds iff they are at most 1000 m apart (899
\* units of latitude), and isSamePlaceForLists(a, b) holds iff they are at
\* most 1000 m apart, or their normalized titles are non-empty and equal and
\* they are at most 10000 m apart (8993 units).
HasFiniteCoords(r) ==
  /\ "lat" \in DOMAIN r /\ "lng" \in DOMAIN r
  /\ IsFinite(r.lat) /\ IsFinite(r.lng)

StoredRecords ==
  {r \in Range(loadStoredPlaces(storage.history)) \cup Range(history) : HasFiniteCoords(r)}

NormalizedTitle(r) == IF "title" \in DOMAIN r THEN normalizePlaceKey(r.title) ELSE ""

UnitsApart(a, b) == Abs(a.lat - b.lat)

NameKey(r) ==
  IF NormalizedTitle(r) # "" THEN NormalizedTitle(r)
  ELSE IF "id" \in DOMAIN r THEN normalizePlaceKey(r.id) ELSE ""

MatchesClick(list, click) ==
  {i \in 1..Len(list) : isSamePlaceForCache(list[i], click)}

FirstMatch(list, click) ==
  list[CHOOSE i \in MatchesClick(list, click) : \A j \in MatchesClick(list, click) : i <= j]

Replays(place) ==
  /\ selKind' = "hit" /\ isCachedView'
  /\ placeName' = (IF Field(place, "title", "") # "" THEN place.title ELSE "Unknown location")
  /\ history' # <<>> /\ Carries(history'[1], [place EXCEPT !.savedAt = now])

\* C19: a map click replays the first bookmark (in list order) within the
\* cache radius of the clicked coordinate when there is one, otherwise the
\* first such history record, and otherwise starts a new selection (the
\* lookup found nothing); a history record is never replayed while a
\* bookmark matches.
C19_FindCachedPrefersBookmarks ==
  [][selections' # selections =>
       IF MatchesClick(bookmarks, coords'[1]) # {}
         THEN Replays(FirstMatch(bookmarks, coords'[1]))
       ELSE IF MatchesClick(history, coords'[1]) # {}
         THEN Replays(FirstMatch(history, coords'[1]))
       ELSE selKind' = "miss" /\ ~isCachedView' /\ requestIdRef' = requestIdRef + 1
    ]_vars

\* A click within 1000 m of both bookmarks and of the first history record:
\* the first bookmark was replayed, not the second, not the history record.
C19_Witness ==
  /\ selKind = "hit" /\ coords = <<LatLng(600)>>
  /\ bookmarks = <<StoredPlace(930, "Lyon, France"), StoredPlace(0, "Paris, France")>>
  /\ placeName = "Lyon, France"
  /\ history = <<[StoredPlace(930, "Lyon, France") EXCEPT !.savedAt = 2],
                 StoredPlace(0, "Paris, France")>>

\* after holds, in order and unchanged, exactly the records of before that
\* are not isSamePlaceForLists-equivalent to entry.
KeepsOthers(before, after, entry) ==
  LET others == {i \in 1..Len(before) : ~isSamePlaceForLists(before[i], entry)}
  IN /\ Len(after) = Cardinality(others)
     /\ \A i \in others : after[Cardinality({j \in others : j <= i})] = before[i]

\* C20: a bookmark toggle on the entry of the current view flips membership:
\* when a bookmark was equivalent to the entry, none is afterwards; otherwise
\* the entry is at index 0 afterwards; in both cases the bookmarks that are
\* not equivalent to the entry are kept, unchanged and in order.
C20_ToggleFlipsMembership ==
  [][(userActions' # userActions /\ selections' = selections) =>
       LET entry == buildSavedPlace(View, now)
       IN IF \E i \in 1..Len(bookmarks) : isSamePlaceForLists(bookmarks[i], entry)
            THEN /\ \A i \in 1..Len(bookmarks') :
                      ~isSamePlaceForLists(bookmarks'[i], entry)
                 /\ KeepsOthers(bookmarks, bookmarks', entry)
          ELSE /\ bookmarks' # <<>>
               /\ Carries(bookmarks'[1], entry)
               /\ Tail(bookmarks') = bookmarks
               /\ KeepsOthers(bookmarks, Tail(bookmarks'), entry)
    ]_vars

\* A place far from both stored bookmarks was bookmarked and un-bookmarked
\* again: the bookmarks are the two stored ones, as before the two toggles.
C20_Witness ==
  /\ userActions = 3 /\ selections = 1 /\ coords = <<LatLng(4500)>>
  /\ bookmarks = <<StoredPlace(0, "Paris, France"), StoredPlace(1200, "Open ocean")>>

\* The entries the program passes to updateBookmarkEntry from this state: the
\* snapshot of the current view (history sync effect) and the entry of a
\* weather refresh in flight.
MergeEntries ==
  (IF coords = <<>> THEN {} ELSE {buildSavedPlace(View, now)})
    \cup {refreshEntry(op, now) : op \in {o \in inflight : o.kind = "refresh"}}

\* next is prev with entry's field values in every record equivalent to
\* entry, each under its own savedAt, and every other record as it was.
MergedInPlace(prev, next, entry) ==
  /\ Len(next) = Len(prev)
  /\ \A i \in 1..Len(prev) :
       IF isSamePlaceForLists(prev[i], entry)
         THEN /\ Carries(next[i], [entry EXCEPT !.savedAt = prev[i].savedAt])
              /\ \A k \in DOMAIN prev[i] \ DOMAIN entry : next[i][k] = prev[i][k]
         ELSE next[i] = prev[i]
  /\ (\A i \in 1..Len(prev) : ~isSamePlaceForLists(prev[i], entry)) => next = prev

C22_ClearedListsStayEmpty ==
  cleared =>
    /\ bookmarks = <<>> /\ history = <<>>
    /\ storage.bookmarks = <<>> /\ storage.history = <<>>

\* This step is a bookmark toggle: a user task that selects nothing, starts
\* nothing, stops nothing and clears nothing.
IsToggleStep ==
  /\ userActions' # userActions /\ selections' = selections
  /\ inflight' = inflight /\ requestIdRef' = requestIdRef /\ ~cleared'

\* C23: on a store with a fault every task completes: a read that fails or
\* finds corrupt text starts the session with empty lists; when writes fail
\* the store keeps what it held while bookmarks and history in memory are
\* what the task computed, and the next tasks act on them: a click is
\* replayed from the lists in memory, a toggle flips the membership in
\* memory, a clear empties them.
C23_StorageFailuresAreSwallowed ==
  [][/\ (userActions = 0 /\ storageFault \in ReadFaults) =>
          (bookmarks = <<>> /\ history = <<>>)
     /\ IF storageFault \in WriteFaults
          THEN storage' = storage
          ELSE storage' = [bookmarks |-> bookmarks', history |-> history']
     /\ selections' # selections =>
          /\ selKind' \in {"hit", "saved"}
                <=> findCachedPlace(bookmarks, history, coords'[1].lat, 0) # <<>>
          /\ selKind' \in {"hit", "saved"} =>
                /\ history' # <<>>
                /\ Carries(history'[1],
                           [findCachedPlace(bookmarks, history, coords'[1].lat, 0)[1]
                              EXCEPT !.savedAt = now])
     /\ IsToggleStep =>
          isBookmarked(bookmarks', coords) # isBookmarked(bookmarks, coords)
     /\ (cleared' /\ ~cleared) => bookmarks' = <<>>
    ]_vars

\* setItem throws all session long: the place selected first and settled is
\* replayed from the history in memory on the second click, while the store
\* still holds the one place of the earlier session.
C23_Witness ==
  /\ storageFault = "setItemThrows"
  /\ selKind = "hit" /\ selections = 2 /\ coords = <<LatLng(4500)>>
  /\ Len(history) = 2 /\ history[1].lat = 4500
  /\ storage.history = <<StoredPlace(0, "Paris, France")>>

\* ------------------------------------------------------ the Place Aggregator
\* The handler of POST /places has answered with its groups.
PlacesAnswered == request.route = "/places" /\ response.status = 200

\* The index of the group of an interest in the response, 0 if none.
GroupAt(id) == FindGroup(response.groups, id)

\* C24: in every response of POST /places, a group that carries an error
\* has an empty places list, also after the retail reclassification.
C24_ErroredGroupHasNoPlaces ==
  PlacesAnswered =>
    \A i \in 1..Len(response.groups) :
      response.groups[i].error # "" => response.groups[i].places = <<>>

\* C25: every group of a response of POST /places has at most 12 places.
C25_AtMostTwelvePlaces ==
  PlacesAnswered =>
    \A i \in 1..Len(response.groups) : Len(response.groups[i].places) <= PLACES_LIMIT

\* The places fetchSerperPlaces returned for the interest of the i-th group.
RawPlaces(i) == SerperResult(upstream[i].outcome).places

\* Title and address in lower case.
LowerKey(place) == <<lowerText(place.title), lowerText(place.address)>>

\* How many places of the list have the key.
CountKey(places, key) == Cardinality({i \in 1..Len(places) : LowerKey(places[i]) = key})

\* The request named the nightlife and the shopping interest and the search
\* service was called for both.
BothRetailGroups ==
  /\ PlacesAnswered /\ upstream # <<>>
  /\ GroupAt("nightlife") # 0 /\ GroupAt("shopping") # 0

\* C26: when a request names nightlife and shopping, every retail item of
\* the nightlife results is absent from the returned nightlife group and is
\* exactly once in the returned shopping group, by lower-cased title and
\* address; the other nightlife items stay, in their order.
C26_RetailMovesToShopping ==
  BothRetailGroups =>
    LET raw == RawPlaces(GroupAt("nightlife"))
        nightlife == response.groups[GroupAt("nightlife")].places
        shopping == response.groups[GroupAt("shopping")].places
    IN /\ \A i \in 1..Len(raw) :
            isRetailPlace(raw[i]) =>
              /\ CountKey(nightlife, LowerKey(raw[i])) = 0
              /\ CountKey(shopping, LowerKey(raw[i])) = 1
       /\ nightlife = FilterSeq(raw, [x \in Range(raw) |-> ~isRetailPlace(x)])

\* Nightlife returned a liquor store that shopping lists in capitals, and a
\* corner store that shopping does not list.
C26_Witness ==
  /\ BothRetailGroups
  /\ upstream[GroupAt("nightlife")].outcome = "bars"
  /\ upstream[GroupAt("shopping")].outcome = "malls"
  /\ Len(response.groups[GroupAt("nightlife")].places) = 2

\* C27: the response of POST /places carries a top-level error only when
\* the attractions group has no places and carries an error.
C27_TopLevelErrorOnlyForDefaultGroup ==
  (PlacesAnswered /\ response.error # "") =>
    /\ GroupAt("attractions") # 0
    /\ response.groups[GroupAt("attractions")].places = <<>>
    /\ response.groups[GroupAt("attractions")].error # ""

\* ------------------------------------------------------- request validation
\* A coordinate of a body is a number, or a string that spells one.
IsNumeric(value) == value.t = "number" \/ (value.t = "string" /\ value.v \in {"48"})
NumericValue(value) == IF value.t = "number" THEN value.n ELSE 48

\* lat or lng is missing, not numeric, or out of range.
CoordinateInvalid(body) ==
  \/ body.t # "object"
  \/ ~IsNumeric(Get(body, "lat")) \/ ~IsNumeric(Get(body, "lng"))
  \/ NumericValue(Get(body, "lat")) < 0 - 90 \/ NumericValue(Get(body, "lat")) > 90
  \/ NumericValue(Get(body, "lng")) < 0 - 180 \/ NumericValue(Get(body, "lng")) > 180

\* A text field of a body is missing or blank.
Blank(body, k) == Get(body, k).t # "string" \/ Trim(Get(body, k).v) = ""

\* The handler answered 400 and called no upstream service.
RejectedAtOnce == response.status = 400 /\ upstream = <<>>

\* C28: POST /places answers 400 without a search call when the coordinate
\* is invalid or no interest is usable, whatever else the body holds.
C28_PlacesRejectsInvalidRequests ==
  (/\ request.route = "/places"
   /\ \/ CoordinateInvalid(request.body)
      \/ normalizeInterests(rawInterests(request.body), 0) = <<>>)
    => RejectedAtOnce

\* The request of the route is malformed.
Malformed ==
  \/ /\ request.route \in {"/weather", "/ai/point"}
     /\ CoordinateInvalid(request.body)
  \/ /\ request.route = "/ai/point"
     /\ Blank(request.body, "bestLabel")
  \/ /\ request.route = "/ai/city"
     /\ \/ CoordinateInvalid(request.body)
        \/ Blank(request.body, "name") \/ Blank(request.body, "cc")

\* C29: POST /weather, /ai/point and /ai/city answer a malformed request
\* with 400 before any upstream call, and a request that passes validation
\* makes exactly one upstream call.
C29_ValidatedBeforeOneUpstreamCall ==
  request.route \in {"/weather", "/ai/point", "/ai/city"} =>
    /\ Malformed => RejectedAtOnce
    /\ ~Malformed => /\ Len(upstream) <= 1
                     /\ response # NoResponse => Len(upstream) = 1

\* --------------------------------------------------------------- SSRF guard
\* The host is this machine or an address of a private network.
PrivateOrLoopback(hostname) ==
  \/ hostname.text \in {"localhost", "localhost.", "[::1]"}
  \/ /\ hostname.octets # <<>>
     /\ \/ hostname.octets[1] \in {10, 127}
        \/ (hostname.octets[1] = 192 /\ hostname.octets[2] = 168)
        \/ (hostname.octets[1] = 172 /\ hostname.octets[2] \in 16..31)

\* C30: GET /image never fetches a URL that is not http(s) or whose host is
\* private or loopback, answering 400 instead; for an accepted URL it
\* answers 502 when the fetch fails, 415 for a content type that is not an
\* image, and 200 otherwise.
C30_ImageProxyGuardsAndMaps ==
  request.route = "/image" =>
    /\ \A i \in 1..Len(upstream) :
         /\ upstream[i].url.protocol \in {"http:", "https:"}
         /\ ~PrivateOrLoopback(upstream[i].url.hostname)
    /\ upstream = <<>> => response.status = 400
    /\ (upstream # <<>> /\ response # NoResponse) =>
         response.status =
           CASE upstream[Len(upstream)].outcome \in {"neterr", "timeout", "http404"} -> 502
             [] upstream[Len(upstream)].outcome = "text/html" -> 415
             [] OTHER -> 200

\* ------------------------------------------------------------ history upsert
\* next is prev after the upsert of entry: the merged record first, then the
\* records of prev that are not equivalent to entry, unchanged and in order,
\* as far as HISTORY_LIMIT allows.
UpsertedInto(prev, next, entry) ==
  LET others == {i \in 1..Len(prev) : ~isSamePlaceForLists(prev[i], entry)}
      matches == (1..Len(prev)) \ others
  IN /\ next # <<>>
     /\ Len(next) <= Len(prev) + 1
     /\ Len(next) = Min(1 + Cardinality(others), HISTORY_LIMIT)
     /\ Carries(next[1], entry)
     /\ matches # {} =>
          LET first == CHOOSE i \in matches : \A j \in matches : i <= j
          IN \A k \in DOMAIN prev[first] \ DOMAIN entry :
               k \in DOMAIN next[1] /\ next[1][k] = prev[first][k]
     /\ matches = {} => DOMAIN next[1] = DOMAIN entry
     /\ \A i \in others :
          Cardinality({j \in others : j <= i}) < HISTORY_LIMIT =>
            next[Cardinality({j \in others : j <= i}) + 1] = prev[i]

\* C31: updateHistoryEntry removes only the records equivalent to the entry
\* and the records pushed beyond position 40; the other records keep their
\* content and order; the merged record, at the front, has the entry's value
\* for every field of the entry and the first match's value for the others;
\* the history grows by at most one record.
C31_UpsertKeepsOtherRecords ==
  \A entry \in MergeEntries :
    UpsertedInto(history, updateHistoryEntry(history, entry), entry)

\* The upsert of the forty-first place of the session evicted the first,
\* and a weather refresh of the forty-first is in flight: its entry will be
\* merged into the record at the front of the full history.
C31_Witness ==
  /\ Len(history) = HISTORY_LIMIT
  /\ history[1].lat = (HISTORY_LIMIT + 1) * 20000
  /\ history[HISTORY_LIMIT].lat = 2 * 20000
  /\ \E op \in inflight :
       op.kind = "refresh" /\ isSamePlaceForLists(history[1], refreshEntry(op, now))

\* -------------------------------------------------------- loading sections
\* A places request tagged with the current places token is in flight.
CurrentPlacesRequestInFlight ==
  \E op \in inflight : op.kind = "places" /\ op.rid = placesRequestIdRef

\* A weather request of the current selection, or a weather refresh tagged
\* with the current token, is in flight.
CurrentWeatherRequestInFlight ==
  \E op \in inflight : op.kind \in {"weather", "refresh"} /\ op.rid = requestIdRef

\* C32: whenever placesStatus is loading a places request tagged with the
\* current places token is in flight, whatever the user did since it was
\* started (toggling an interest in the refine dialog included); the same
\* holds for weatherStatus and the weather operation.
C32_LoadingHasCurrentRequest ==
  /\ placesStatus = "loading" => CurrentPlacesRequestInFlight
  /\ weatherStatus = "loading" => CurrentWeatherRequestInFlight

\* Every operation started for the coordinate has settled or was cancelled.
OperationsOver(lat) == \A op \in inflight : op.lat # lat

\* The record shows no section as loading once the operations of its
\* selection are over.
NotLeftLoading(rec) ==
  OperationsOver(rec.lat) =>
    /\ "placesStatus" \in DOMAIN rec => rec.placesStatus # "loading"
    /\ "weatherStatus" \in DOMAIN rec => rec.weatherStatus # "loading"

\* C33: no record of history or bookmarks keeps placesStatus or
\* weatherStatus at loading once the operations of its selection have
\* settled or were cancelled, and a cache replay shows no section as loading
\* while no operation for it is in flight.
C33_NoRecordLeftLoading ==
  /\ \A rec \in Range(history) \cup Range(bookmarks) : NotLeftLoading(rec)
  /\ isCachedView =>
       /\ placesStatus = "loading" => \E op \in inflight : op.kind = "places"
       /\ weatherStatus = "loading" => \E op \in inflight : op.kind \in {"weather", "refresh"}

\* ----------------------------------------------------------------- the stop
\* This step is resetSelection: the selection token moves without a
\* selection.
IsResetStep == requestIdRef' # requestIdRef /\ selections' = selections

\* The view resetSelection leaves: Idle, every field empty.
IdleView ==
  /\ status = "idle" /\ ~isCachedView /\ coords = <<>>
  /\ geoStatus = "idle" /\ placeName = "" /\ summary = NoSummary /\ aiError = ""
  /\ images = <<>> /\ sources = <<>>
  /\ placesGroups = <<>> /\ placesStatus = "idle" /\ placesError = ""
  /\ weather = NoWeather /\ weatherStatus = "idle" /\ weatherError = ""

\* C34: resetSelection increments both tokens, clears the four cancellation
\* handles and leaves the view Idle with every field empty; and until the
\* next selection no settlement of an operation started before it changes a
\* field of the view or adds a record to history or bookmarks.
C34_StopDiscardsEarlierOperations ==
  [][/\ IsResetStep =>
          /\ requestIdRef' = requestIdRef + 1
          /\ placesRequestIdRef' = placesRequestIdRef + 1
          /\ ~aiAbortRef' /\ ~weatherAbortRef' /\ ~geoAbortRef' /\ ~placesAbortRef'
          /\ IdleView'
     /\ \A op \in inflight \cup microtasks :
          (selKind = "none" /\ Settles(op)) =>
            /\ UNCHANGED viewVars
            /\ Len(history') <= Len(history)
            /\ Len(bookmarks') <= Len(bookmarks)
    ]_vars

\* ------------------------------------------------------ bookmarked indicator
\* C35: for the current Ready selection, isBookmarked is true exactly when
\* the bookmarks hold a record equivalent to the snapshot that the bookmark
\* toggle and the merge into the bookmarks use.
C35_IndicatorAgreesWithStore ==
  (status = "ready" /\ coords # <<>>) =>
    (isBookmarked(bookmarks, coords)
       <=> \E i \in 1..Len(bookmarks) :
             isSamePlaceForLists(bookmarks[i], buildSavedPlace(View, now)))

\* The records of one list have pairwise different ids, each the id of the
\* record's own coordinates.
IdsSound(list) ==
  /\ \A i \in 1..Len(list) :
       "id" \in DOMAIN list[i] /\ list[i].id = buildPlaceId(list[i].lat, list[i].lng)
  /\ \A i, j \in 1..Len(list) : list[i].id = list[j].id => i = j

\* C36: within each of bookmarks and history no two records share an id, and
\* every stored record's id is the id derived from its own lat/lng, after any
\* sequence of upserts, merges, toggles and cache replays.
C36_IdsUniqueAndDerived == IdsSound(bookmarks) /\ IdsSound(history)

\* A click 667 m from two stored bookmarks replayed the first of them, and the
\* weather refresh that followed merged its entry into both: one bookmark is
\* left, at the clicked coordinates and under their id.
C36_Witness ==
  /\ isCachedView /\ coords # <<>> /\ coords[1].lat = 600
  /\ Len(bookmarks) = 1 /\ bookmarks[1].lat = 600
  /\ bookmarks[1].id = buildPlaceId(600, 0)
  /\ Len(history) = 1 /\ history[1].lat = 600

\* The lower-cased category+title text of the place contains a POI keyword.
ContainsPoiKeyword(place) ==
  \E word \in {toLowerCase(place.category), toLowerCase(place.title.w)} :
    \E keyword \in POI_KEYWORDS : keyword \in KeywordsIn(word)

\* C37: the POI keyword filter is applied to the group whose interest id is
\* attractions and to no other: the attractions group holds the upstream
\* items that contain a POI keyword, in their order; the nightlife group
\* keeps every upstream item that is not retail and the shopping group every
\* upstream item of its own; every other group is the normalized upstream
\* result.
C37_PoiFilterOnAttractionsOnly ==
  (PlacesAnswered /\ upstream # <<>>) =>
    \A i \in 1..Len(response.groups) :
      LET id == response.groups[i].id
          places == response.groups[i].places
          raw == RawPlaces(i)
      IN /\ id = "attractions" =>
              /\ \A k \in 1..Len(places) : ContainsPoiKeyword(places[k])
              /\ places = FilterSeq(raw, [x \in Range(raw) |-> ContainsPoiKeyword(x)])
         /\ id = "nightlife" =>
              \A k \in 1..Len(raw) :
                ~isRetailPlace(raw[k]) => CountKey(places, LowerKey(raw[k])) >= 1
         /\ (id = "shopping" /\ i = GroupAt("shopping")) =>
              \A k \in 1..Len(raw) : CountKey(places, LowerKey(raw[k])) >= 1
         /\ id \notin {"attractions", "nightlife", "shopping"} => places = raw

\* The same payload (a museum, a cafe and a park) came back for attractions
\* and for food: the attractions group lost the cafe, the food group kept it.
C37_Witness ==
  /\ PlacesAnswered /\ upstream # <<>>
  /\ GroupAt("attractions") # 0 /\ GroupAt("food") # 0
  /\ upstream[GroupAt("attractions")].outcome = "sights"
  /\ upstream[GroupAt("food")].outcome = "sights"
  /\ Len(response.groups[GroupAt("attractions")].places) = 2
  /\ Len(response.groups[GroupAt("food")].places) = 3

\* The request named the nightlife interest and not the shopping interest,
\* and the search service was called.
NightlifeWithoutShopping ==
  /\ PlacesAnswered /\ upstream # <<>>
  /\ GroupAt("nightlife") # 0 /\ GroupAt("shopping") = 0

\* The places of the i-th group before the reclassification step.
PlacesBeforeReclassification(i) ==
  IF upstream[i].interest.id = "attractions"
    THEN FilterSeq(RawPlaces(i), [x \in Range(RawPlaces(i)) |-> ContainsPoiKeyword(x)])
    ELSE RawPlaces(i)

\* C38 as stated: when a request names nightlife and not shopping, a retail
\* item of the nightlife results is in no returned group.
C38_RetailInNoGroup ==
  NightlifeWithoutShopping =>
    LET raw == RawPlaces(GroupAt("nightlife"))
    IN \A k \in 1..Len(raw) :
         isRetailPlace(raw[k]) =>
           \A i \in 1..Len(response.groups) :
             CountKey(response.groups[i].places, LowerKey(raw[k])) = 0

\* C38: when a request names nightlife and not shopping, the retail items of
\* the nightlife results are removed from the nightlife group and added to
\* no group; in every request the groups other than nightlife and shopping
\* are what they were before the reclassification step.
C38_RetailDroppedWithoutShopping ==
  (PlacesAnswered /\ upstream # <<>>) =>
    /\ NightlifeWithoutShopping =>
         LET raw == RawPlaces(GroupAt("nightlife"))
         IN response.groups[GroupAt("nightlife")].places =
              FilterSeq(raw, [x \in Range(raw) |-> ~isRetailPlace(x)])
    /\ \A i \in 1..Len(response.groups) :
         (i # GroupAt("nightlife") /\ i # GroupAt("shopping")) =>
           response.groups[i].places = PlacesBeforeReclassification(i)

\* Nightlife and food were searched without shopping and both searches
\* returned the bars payload: the liquor store and the corner store left the
\* nightlife group, and the food group kept its own four items.
C38_Witness ==
  /\ NightlifeWithoutShopping /\ GroupAt("food") # 0
  /\ upstream[GroupAt("nightlife")].outcome = "bars"
  /\ upstream[GroupAt("food")].outcome = "bars"
  /\ Len(response.groups[GroupAt("nightlife")].places) = 2
  /\ Len(response.groups[GroupAt("food")].places) = 4

\* The request of an AI route passed the validation of its handler.
AiRequestValidated ==
  \/ /\ request.route = "/ai/point"
     /\ parseLatLng(request.body) # <<>>
     /\ Trim(String(Get(request.body, "bestLabel"))) # ""
  \/ /\ request.route = "/ai/city"
     /\ request.body.t = "object"
     /\ parseLatLng(request.body) # <<>>
     /\ Trim(String(Get(request.body, "name"))) # ""
     /\ Trim(String(Get(request.body, "cc"))) # ""

\* The answer has the fields of an AiResponse: a string summary and arrays.
WellFormedAiResponse(r) ==
  /\ {"summary", "facts", "nearby", "images", "sources"} \subseteq DOMAIN r
  /\ r.summary.t = "string"
  /\ \A k \in {"facts", "nearby", "images", "sources"} : r[k].t = "array"

\* C39: callPerplexity never throws to its route: whatever the upstream call
\* came to (no API key, timeout, transport error, error status, a body that
\* cannot be parsed or used), a validated request of /ai/point or /ai/city
\* is answered 200 with a well-formed AiResponse, with either module.
C39_AiCallNeverThrows ==
  (AiRequestValidated /\ response # NoResponse) =>
    /\ response.status = 200
    /\ WellFormedAiResponse(response)

\* The module that calls fetch was timed out, retried on the aborted signal
\* and answered 200 with the failure as its summary.
C39_Witness ==
  /\ AiRequestValidated /\ aiService.module = "fetch"
  /\ Len(upstream) = 2 /\ upstream[1].outcome = "timeout"
  /\ response.status = 200
  /\ response.summary = JStr("AI request failed: The operation was aborted.")

\* A call of the module that calls fetch is under way or over.
FetchCallBegun ==
  /\ request.route \in {"/ai/point", "/ai/city"}
  /\ aiService.module = "fetch" /\ upstream # <<>>

\* What holds of the attempts of the loop in every state.
RetryLoopBounded ==
  FetchCallBegun =>
    /\ Len(upstream) <= PPLX_MAX_RETRIES + 1
    /\ \A i \in 2..Len(upstream) : upstream[i - 1].outcome \in {"timeout", "aborted"}
    /\ \A i \in 1..Len(upstream) :
         upstream[i].outcome \in {"badjson", "http401", "http500", "neterr"} =>
           i = Len(upstream) /\ response # NoResponse
    /\ aiService.timer = (IF response = NoResponse THEN "armed" ELSE "cleared")

\* A step of the loop answers the request or issues the next attempt.
RetryLoopAdvances ==
  (FetchCallBegun /\ response = NoResponse) =>
    (response' # NoResponse \/ Len(upstream') = Len(upstream) + 1)

\* C40: the retry loop of the module that calls fetch ends after at most
\* PPLX_MAX_RETRIES + 1 requests: a second request follows only a first one
\* that failed with an abort or timeout error, any other failure ends the
\* loop at once, every step of the loop answers or issues the next attempt,
\* and the timer is armed while the call runs and cleared when it is over.
C40_RetryLoopTerminates == []RetryLoopBounded /\ [][RetryLoopAdvances]_vars

\* The first request failed with a connection that was aborted, the second
\* with an error status: the loop ended there and the timer was cleared.
C40_Witness ==
  /\ FetchCallBegun /\ Len(upstream) = PPLX_MAX_RETRIES + 1
  /\ upstream[1].outcome = "aborted" /\ upstream[2].outcome = "http500"
  /\ response # NoResponse /\ aiService.timer = "cleared"

====
